---- MODULE Spec2Model ----
(***************************************************************************)
(* Model of the cache manager (src/cache/CacheManager.ts), the diff        *)
(* manager (src/diff/DiffManager.ts) and the optimizer that glues them     *)
(* (src/core/CodeReferenceOptimizer.ts).                                   *)
(*                                                                         *)
(* A JavaScript string is a sequence of one-character strings; a text is   *)
(* a string that may hold the newline character NL.  String.split("\n")    *)
(* and Array.join("\n") are the operators Split and Join below.            *)
(***************************************************************************)
EXTENDS Integers, Sequences, FiniteSets, TLC

VARIABLES
    \* ---- DiffManager.computeDiff / applyDiff, driven on chosen inputs
    oldText,        \* oldContent / originalContent
    newText,        \* newContent
    changes,        \* DiffChange[] : computed by computeDiff or hand-written
    result,         \* the string applyDiff returned
    dphase,         \* "input" | "diffed" | "hunks" | "applied" | "patched"
    \* ---- DiffManager: the snapshot store
    fileSnapshots,  \* Map<string, string>, per file [present, value]
    symbolSnapshots,\* Map<string, Map<string, string>>, per file [present, value]
    snapCall,       \* the last call on the store, its arguments and its outcome
    \* ---- the two truncation functions, driven on chosen inputs
    tctx,           \* the CodeContext handed in
    tbudget,        \* maxTokens of truncateToTokenLimit
    tkind,          \* "cache" (truncateContext) | "optimizer" (truncateToTokenLimit)
    tonce,          \* the context after one truncation
    ttwice,         \* the context after truncating tonce again
    tphase,         \* "input" | "once" | "twice"
    \* ---- CodeReferenceOptimizer.extractCodeContext, one request
    options,        \* ExtractContextOptions (targetSymbols is the caller's array)
    supplied,       \* targetSymbols as the caller wrote it, before the request
    cacheKey,       \* const cacheKey
    cached,         \* what cacheManager.get resolved to: [present, ctx]
    extractedContext, \* what astParser.extractContext resolved to
    context,        \* the freshly built CodeContext
    returned,       \* the CodeContext the request resolved to
    calls,          \* the collaborator calls of the request, in order
    epc,            \* "start" | "probed" | "parsed" | "stored" | "done"
    \* ---- CacheManager
    cache,          \* the LRUCache: its entries, most recently used first
    stats,          \* CacheStats (hitRate and missRate are left out)
    accessCounts,   \* Map<string, number>: undefined where the key is absent
    lastAccessed,   \* Map<string, number>: undefined where the key is absent
    cacheCall,      \* the last call on the cache manager and what it returned
    nops,           \* number of calls made so far
    \* ---- CodeReferenceOptimizer.optimizeImports, one request
    originalImports,  \* what importAnalyzer.extractImports resolved to
    minimalImports,   \* what importAnalyzer.getMinimalImports resolved to
    importsReturned,  \* what optimizeImports resolved to
    ipc,              \* "start" | "done"
    \* ---- calls suspended at an await
    pending,        \* the set calls between ensureCapacity and cache.set, oldest first
    requests,       \* the analyzeCodeDiff requests: position and locals of each
    now             \* Date.now()

diffVars == <<oldText, newText, changes, result, dphase>>
snapVars == <<fileSnapshots, symbolSnapshots, snapCall>>
truncVars == <<tctx, tbudget, tkind, tonce, ttwice, tphase>>
extractVars == <<options, supplied, cacheKey, cached, extractedContext, context,
                 returned, calls, epc>>
cacheVars == <<cache, stats, accessCounts, lastAccessed, cacheCall, nops>>
importVars == <<originalImports, minimalImports, importsReturned, ipc>>
asyncVars == <<pending, requests>>
vars == <<diffVars, snapVars, truncVars, extractVars, cacheVars, importVars, asyncVars, now>>

----------------------------------------------------------------------------
(* Bounds of the model *)

\* number of lines of a generated text
MaxLines == 3
\* number of hand-written hunks handed to applyDiff
MaxHunks == 2
\* number of lines of the extractedCode handed to a truncation
MaxCodeLines == 3
\* number of target symbols of a request
MaxSymbols == 2
\* number of calls on the cache manager in one run
MaxOps == 3
\* the last instant the clock reaches
MaxTime == 4
\* number of import statements a collaborator answers with
MaxImports == 2

----------------------------------------------------------------------------
(* Strings *)

NL == "\n"
\* the value of an absent optional field (oldStart?, newStart?, ...)
undefined == -1

Max(a, b) == IF a >= b THEN a ELSE b
Min(a, b) == IF a <= b THEN a ELSE b

\* String.prototype.split("\n")
RECURSIVE Split(_)
Split(s) ==
    IF \A i \in 1..Len(s) : s[i] # NL
    THEN <<s>>
    ELSE LET i == CHOOSE k \in 1..Len(s) :
                    s[k] = NL /\ \A h \in 1..(k-1) : s[h] # NL
         IN  <<SubSeq(s, 1, i-1)>> \o Split(SubSeq(s, i+1, Len(s)))

\* Array.prototype.join(sep)
RECURSIVE JoinWith(_, _)
JoinWith(lines, sep) ==
    IF lines = <<>> THEN <<>>
    ELSE IF Len(lines) = 1 THEN lines[1]
    ELSE lines[1] \o sep \o JoinWith(Tail(lines), sep)

Join(lines) == JoinWith(lines, <<NL>>)

\* Array.prototype.slice(from, to) with 0-based from, exclusive to, clamped
Slice(arr, from, to) == SubSeq(arr, from + 1, Min(to, Len(arr)))

\* a JavaScript string used as a condition: "" is falsy
Truthy(s) == s # <<>>

----------------------------------------------------------------------------
(* DiffManager: computeDiff *)

\* longestCommonSubsequence: the (m+1) x (n+1) table of LCS lengths
longestCommonSubsequence(arr1, arr2) ==
    LET m == Len(arr1)
        n == Len(arr2)
        dp[i \in 0..m, j \in 0..n] ==
            IF i = 0 \/ j = 0 THEN 0
            ELSE IF arr1[i] = arr2[j] THEN dp[i-1, j-1] + 1
            ELSE Max(dp[i-1, j], dp[i, j-1])
    IN  dp

Op(type, content, oldIndex, newIndex) ==
    [type |-> type, content |-> content, oldIndex |-> oldIndex, newIndex |-> newIndex]

\* the walk back with positions counted from one instead of from zero
RECURSIVE OpStreamFromOneBased(_, _, _, _, _)
OpStreamFromOneBased(oldLines, newLines, lcs, i, j) ==
    IF ~(i > 0 \/ j > 0) THEN <<>>
    ELSE IF i > 0 /\ j > 0 /\ oldLines[i] = newLines[j]
    THEN OpStreamFromOneBased(oldLines, newLines, lcs, i-1, j-1)
            \o <<Op("unchanged", oldLines[i], i, j)>>
    ELSE IF j > 0 /\ (i = 0 \/ lcs[i, j-1] >= lcs[i-1, j])
    THEN OpStreamFromOneBased(oldLines, newLines, lcs, i, j-1)
            \o <<Op("added", newLines[j], i, j)>>
    ELSE OpStreamFromOneBased(oldLines, newLines, lcs, i-1, j)
            \o <<Op("removed", oldLines[i], i, j)>>

\* generateOpStream: the walk back from (i, j); ops.unshift builds the
\* stream in forward order
RECURSIVE OpStreamFrom(_, _, _, _, _)
OpStreamFrom(oldLines, newLines, lcs, i, j) ==
    IF ~(i > 0 \/ j > 0) THEN <<>>
    ELSE IF i > 0 /\ j > 0 /\ oldLines[i] = newLines[j]
    THEN OpStreamFrom(oldLines, newLines, lcs, i-1, j-1)
            \o <<Op("unchanged", oldLines[i], i-1, j-1)>>
    ELSE IF j > 0 /\ (i = 0 \/ lcs[i, j-1] >= lcs[i-1, j])
    THEN OpStreamFrom(oldLines, newLines, lcs, i, j-1)
            \o <<Op("added", newLines[j], i-1, j-1)>>
    ELSE OpStreamFrom(oldLines, newLines, lcs, i-1, j)
            \o <<Op("removed", oldLines[i], i-1, j-1)>>

generateOpStream(oldLines, newLines, lcs) ==
    OpStreamFrom(oldLines, newLines, lcs, Len(oldLines), Len(newLines))

DiffChange(type, oldStart, oldEnd, newStart, newEnd, content) ==
    [type |-> type, oldStart |-> oldStart, oldEnd |-> oldEnd,
     newStart |-> newStart, newEnd |-> newEnd, content |-> content]

\* the inner loops "while (i < ops.length && ops[i].type === t) i++":
\* the first position at or after i (1-based) that does not hold a t op
RECURSIVE RunEnd(_, _, _)
RunEnd(ops, i, t) ==
    IF i <= Len(ops) /\ ops[i].type = t THEN RunEnd(ops, i + 1, t) ELSE i

OpContents(ops, from, to) == [k \in 1..(to - from + 1) |-> ops[from + k - 1].content]

\* the merge loop of computeDiff without its merge: a removed run is never
\* joined with the added run behind it
RECURSIVE MergeOpsSplit(_, _)
MergeOpsSplit(ops, i) ==
    IF i > Len(ops) THEN <<>>
    ELSE IF ops[i].type = "removed" THEN
        LET e == RunEnd(ops, i, "removed")
        IN  <<DiffChange("removed", ops[i].oldIndex + 1, ops[e-1].oldIndex + 1,
                         undefined, undefined, Join(OpContents(ops, i, e-1)))>>
            \o MergeOpsSplit(ops, e)
    ELSE IF ops[i].type = "added" THEN
        LET e == RunEnd(ops, i, "added")
        IN  <<DiffChange("added", undefined, undefined,
                         ops[i].newIndex + 1, ops[e-1].newIndex + 1,
                         Join(OpContents(ops, i, e-1)))>>
            \o MergeOpsSplit(ops, e)
    ELSE MergeOpsSplit(ops, i + 1)

\* the merge loop of computeDiff, from position i (1-based) of the op stream
RECURSIVE MergeOps(_, _)
MergeOps(ops, i) ==
    IF i > Len(ops) THEN <<>>
    ELSE IF ops[i].type = "removed" THEN
        LET e == RunEnd(ops, i, "removed")
            remStartOld == ops[i].oldIndex + 1
            remEndOld   == ops[e-1].oldIndex + 1
        IN  IF e <= Len(ops) /\ ops[e].type = "added"
            THEN LET f == RunEnd(ops, e, "added")
                 IN  <<DiffChange("modified", remStartOld, remEndOld,
                                  ops[e].newIndex + 1, ops[f-1].newIndex + 1,
                                  Join(OpContents(ops, e, f-1)))>>
                     \o MergeOps(ops, f)
            ELSE <<DiffChange("removed", remStartOld, remEndOld,
                              undefined, undefined,
                              Join(OpContents(ops, i, e-1)))>>
                 \o MergeOps(ops, e)
    ELSE IF ops[i].type = "added" THEN
        LET e == RunEnd(ops, i, "added")
        IN  <<DiffChange("added", undefined, undefined,
                         ops[i].newIndex + 1, ops[e-1].newIndex + 1,
                         Join(OpContents(ops, i, e-1)))>>
            \o MergeOps(ops, e)
    ELSE MergeOps(ops, i + 1)

DiffOps(oldContent, newContent) ==
    LET oldLines == Split(oldContent)
        newLines == Split(newContent)
    IN  generateOpStream(oldLines, newLines,
                         longestCommonSubsequence(oldLines, newLines))

computeDiffNoMerge(oldContent, newContent) ==
    MergeOpsSplit(DiffOps(oldContent, newContent), 1)

computeDiff(oldContent, newContent) ==
    MergeOps(DiffOps(oldContent, newContent), 1)

----------------------------------------------------------------------------
(* DiffManager: applyDiff *)

\* the comparator of applyDiff,
\*   (a.oldStart ?? MAX_SAFE_INTEGER) - (b.oldStart ?? MAX_SAFE_INTEGER) <= 0,
\* without the number MAX_SAFE_INTEGER itself (it is larger than any line)
SortKeyLeq(a, b) ==
    IF a.oldStart = undefined THEN b.oldStart = undefined
    ELSE b.oldStart = undefined \/ a.oldStart <= b.oldStart

\* Array.prototype.sort is stable: insert each element behind the elements
\* whose key is not larger
RECURSIVE InsertByOldStart(_, _)
InsertByOldStart(sorted, ch) ==
    IF sorted = <<>> THEN <<ch>>
    ELSE IF SortKeyLeq(Head(sorted), ch)
    THEN <<Head(sorted)>> \o InsertByOldStart(Tail(sorted), ch)
    ELSE <<ch>> \o sorted

RECURSIVE SortByOldStart(_)
SortByOldStart(chs) ==
    IF chs = <<>> THEN <<>>
    ELSE InsertByOldStart(SortByOldStart(SubSeq(chs, 1, Len(chs) - 1)), chs[Len(chs)])

\* one iteration of the loop of applyDiff on the state [cursor, result]
ApplyStep(lines, st, ch) ==
    LET oldStart  == IF ch.oldStart = undefined THEN st.cursor ELSE ch.oldStart
        oldEnd    == IF ch.oldEnd # undefined THEN ch.oldEnd
                     ELSE IF ch.oldStart # undefined THEN ch.oldStart
                     ELSE st.cursor - 1
        copyUntil == Max(1, oldStart - 1)
        copied    == IF st.cursor <= copyUntil
                     THEN [cursor |-> copyUntil + 1,
                           result |-> st.result \o Slice(lines, st.cursor - 1, copyUntil)]
                     ELSE st
        spliced   == IF Truthy(ch.content)
                     THEN copied.result \o Split(ch.content)
                     ELSE copied.result
    IN  IF ch.type = "removed"
        THEN [cursor |-> Max(copied.cursor, oldEnd + 1), result |-> copied.result]
        ELSE IF ch.type = "modified"
        THEN [cursor |-> Max(copied.cursor, oldEnd + 1), result |-> spliced]
        ELSE [cursor |-> copied.cursor, result |-> spliced]

RECURSIVE ApplyLoop(_, _, _)
ApplyLoop(lines, st, sorted) ==
    IF sorted = <<>> THEN st
    ELSE ApplyLoop(lines, ApplyStep(lines, st, Head(sorted)), Tail(sorted))

applyDiff(originalContent, chs) ==
    LET sorted == SortByOldStart(chs)
        lines  == Split(originalContent)
        st     == ApplyLoop(lines, [cursor |-> 1, result |-> <<>>], sorted)
        final  == IF st.cursor <= Len(lines)
                  THEN st.result \o Slice(lines, st.cursor - 1, Len(lines))
                  ELSE st.result
    IN  Join(final)

----------------------------------------------------------------------------
(* DiffManager: symbol snapshots and generateSymbolDiff *)

\* A Map<string, string> is the sequence of its [name, code] entries in
\* insertion order, the names distinct.
MapHas(m, name) == \E k \in 1..Len(m) : m[k].name = name
MapGet(m, name) == m[CHOOSE k \in 1..Len(m) : m[k].name = name].code
MapKeys(m) == [k \in 1..Len(m) |-> m[k].name]

\* "!x" / "x" on the result of Map.get: undefined and "" are both falsy
GetTruthy(m, name) == MapHas(m, name) /\ Truthy(MapGet(m, name))

\* new Set([...snapshot.keys(), ...currentSymbols.keys()]) in iteration order
AllSymbols(snapshot, currentSymbols) ==
    MapKeys(snapshot)
        \o SelectSeq(MapKeys(currentSymbols), LAMBDA n : ~MapHas(snapshot, n))

\* the records the loop body of generateSymbolDiff pushes for one name
SymbolRecords(snapshot, currentSymbols, symbolName) ==
    LET oldT == GetTruthy(snapshot, symbolName)
        newT == GetTruthy(currentSymbols, symbolName)
    IN  IF ~oldT /\ newT
        THEN <<[symbol |-> symbolName, type |-> "added",
                code |-> MapGet(currentSymbols, symbolName), lineNumber |-> 0]>>
        ELSE IF oldT /\ ~newT
        THEN <<[symbol |-> symbolName, type |-> "removed", code |-> <<>>,
                lineNumber |-> 0, oldCode |-> MapGet(snapshot, symbolName)]>>
        ELSE IF oldT /\ newT
                /\ MapGet(snapshot, symbolName) # MapGet(currentSymbols, symbolName)
        THEN <<[symbol |-> symbolName, type |-> "modified",
                code |-> MapGet(currentSymbols, symbolName), lineNumber |-> 0,
                oldCode |-> MapGet(snapshot, symbolName)]>>
        ELSE <<>>

RECURSIVE SymbolLoop(_, _, _)
SymbolLoop(snapshot, currentSymbols, names) ==
    IF names = <<>> THEN <<>>
    ELSE SymbolRecords(snapshot, currentSymbols, Head(names))
            \o SymbolLoop(snapshot, currentSymbols, Tail(names))

\* generateSymbolDiff behind its "no symbol snapshot" guard
SymbolDiffOf(snapshot, currentSymbols) ==
    SymbolLoop(snapshot, currentSymbols, AllSymbols(snapshot, currentSymbols))

Absent == [present |-> FALSE, value |-> <<>>]
Present(v) == [present |-> TRUE, value |-> v]

Files == {"f1", "f2"}
SymbolNames == {"foo", "bar"}
SymbolCodes == {<<>>, <<"o">>, <<"n">>}
SnapshotTexts == {<<>>, <<"a">>}

\* the maps over SymbolNames; a map of both names holds foo first
SymbolMaps ==
    {<<>>}
    \cup {<<[name |-> n, code |-> c]>> : n \in SymbolNames, c \in SymbolCodes}
    \cup {<<[name |-> "foo", code |-> c1], [name |-> "bar", code |-> c2]>> :
            c1 \in SymbolCodes, c2 \in SymbolCodes}

SnapIdle ==
    /\ fileSnapshots = [f \in Files |-> Absent]
    /\ symbolSnapshots = [f \in Files |-> Absent]
    /\ snapCall = [op |-> "none"]

InitSnap == SnapIdle

createSnapshotFromContent(filePath, content) ==
    /\ fileSnapshots' = [fileSnapshots EXCEPT ![filePath] = Present(content)]
    /\ snapCall' = [op |-> "createSnapshotFromContent", filePath |-> filePath]
    /\ UNCHANGED symbolSnapshots

createSymbolSnapshots(filePath, symbols) ==
    /\ symbolSnapshots' = [symbolSnapshots EXCEPT ![filePath] = Present(symbols)]
    /\ snapCall' = [op |-> "createSymbolSnapshots", filePath |-> filePath]
    /\ UNCHANGED fileSnapshots

\* generateFileDiff: readResult is what fs.readFile gives, [present, value],
\* absent when the read fails; "!snapshot" is true for "" as for undefined
generateFileDiff(filePath, readResult) ==
    /\ snapCall' =
         IF ~fileSnapshots[filePath].present \/ ~Truthy(fileSnapshots[filePath].value)
         THEN [op |-> "generateFileDiff", filePath |-> filePath, threw |-> TRUE,
               error |-> "No snapshot found", returned |-> <<>>]
         ELSE IF ~readResult.present
         THEN [op |-> "generateFileDiff", filePath |-> filePath, threw |-> TRUE,
               error |-> "Failed to read current content", returned |-> <<>>]
         ELSE [op |-> "generateFileDiff", filePath |-> filePath, threw |-> FALSE,
               error |-> "",
               returned |-> computeDiff(fileSnapshots[filePath].value, readResult.value)]
    /\ UNCHANGED <<fileSnapshots, symbolSnapshots>>

\* generateSymbolDiff that diffs against an empty map when no snapshot is stored
generateSymbolDiffLenient(filePath, currentSymbols) ==
    /\ snapCall' =
         [op |-> "generateSymbolDiff", filePath |-> filePath,
          current |-> currentSymbols, threw |-> FALSE, error |-> "",
          returned |-> SymbolDiffOf(IF symbolSnapshots[filePath].present
                                    THEN symbolSnapshots[filePath].value ELSE <<>>,
                                    currentSymbols)]
    /\ UNCHANGED <<fileSnapshots, symbolSnapshots>>

generateSymbolDiff(filePath, currentSymbols) ==
    /\ snapCall' =
         IF ~symbolSnapshots[filePath].present
         THEN [op |-> "generateSymbolDiff", filePath |-> filePath,
               current |-> currentSymbols, threw |-> TRUE,
               error |-> "No symbol snapshot found", returned |-> <<>>]
         ELSE [op |-> "generateSymbolDiff", filePath |-> filePath,
               current |-> currentSymbols, threw |-> FALSE, error |-> "",
               returned |-> SymbolDiffOf(symbolSnapshots[filePath].value,
                                         currentSymbols)]
    /\ UNCHANGED <<fileSnapshots, symbolSnapshots>>

clearSnapshots ==
    /\ fileSnapshots' = [f \in Files |-> Absent]
    /\ symbolSnapshots' = [f \in Files |-> Absent]
    /\ snapCall' = [op |-> "clearSnapshots"]

clearFileSnapshots(filePath) ==
    /\ fileSnapshots' = [fileSnapshots EXCEPT ![filePath] = Absent]
    /\ symbolSnapshots' = [symbolSnapshots EXCEPT ![filePath] = Absent]
    /\ snapCall' = [op |-> "clearFileSnapshots", filePath |-> filePath]

----------------------------------------------------------------------------
(* The configuration the CacheManager is constructed with.  The constructor *)
(* takes every value from its argument; the instance modelled is a scaled   *)
(* one: a relevanceScore is counted in hundredths.                          *)

maxCacheSize == 100
maxTokensPerEntry == 2
cacheExpirationMs == 2
tokenEstimationRatio == 4
relevanceThreshold == 50

Rep(n) == [i \in 1..n |-> "x"]

CodeContext(filePath, extractedCode, imports, symbols, dependencies, tokenCount, timestamp, relevanceScore) ==
    [filePath |-> filePath, extractedCode |-> extractedCode, imports |-> imports,
     symbols |-> symbols, dependencies |-> dependencies, tokenCount |-> tokenCount,
     timestamp |-> timestamp, relevanceScore |-> relevanceScore]

\* Math.ceil(a / b) for a >= 0, b > 0
CeilDiv(a, b) == (a + b - 1) \div b

----------------------------------------------------------------------------
(* CacheManager.truncateContext *)

\* the loop: [kept, currentLength] after the lines that fit
RECURSIVE KeepLines(_, _, _)
KeepLines(lines, acc, maxChars) ==
    IF lines = <<>> THEN acc
    ELSE IF acc.currentLength + Len(Head(lines)) > maxChars THEN acc
    ELSE KeepLines(Tail(lines),
                   [kept |-> Append(acc.kept, Head(lines)),
                    currentLength |-> acc.currentLength + Len(Head(lines)) + 1],
                   maxChars)

\* a truncation that cuts the last line of whatever it is given: no early
\* return, and the loop stops one line short
truncateContextCutLast(ctx) ==
    LET lines == Split(ctx.extractedCode)
        kept  == SubSeq(lines, 1, Len(lines) - 1)
    IN  [ctx EXCEPT !.extractedCode = Join(kept),
                    !.tokenCount = CeilDiv(Len(Join(kept)), tokenEstimationRatio)]

truncateContext(ctx) ==
    LET maxChars == maxTokensPerEntry * tokenEstimationRatio
    IN  IF Len(ctx.extractedCode) <= maxChars THEN ctx
        ELSE LET acc == KeepLines(Split(ctx.extractedCode),
                                  [kept |-> <<>>, currentLength |-> 0], maxChars)
             IN  [ctx EXCEPT !.extractedCode = Join(acc.kept),
                             !.tokenCount = CeilDiv(acc.currentLength,
                                                    tokenEstimationRatio)]

----------------------------------------------------------------------------
(* The LRUCache the constructor builds: max 1000 entries, maxSize =          *)
(* maxCacheSize, sizeCalculation = calculateEntrySize, ttl =                 *)
(* cacheExpirationMs, dispose = onEviction.  dispose runs for every value    *)
(* that leaves the store: deleted, evicted, cleared or overwritten.          *)

LruMax == 1000

RECURSIVE SumSizes(_)
SumSizes(entries) ==
    IF entries = <<>> THEN 0 ELSE Head(entries).size + SumSizes(Tail(entries))

\* cache.calculatedSize and cache.size
CalculatedSize(c) == SumSizes(c)
LruSize(c) == Len(c)

LruHas(c, key) == \E k \in 1..Len(c) : c[k].key = key
LruIndex(c, key) == CHOOSE k \in 1..Len(c) : c[k].key = key
LruWithout(c, key) == SelectSeq(c, LAMBDA e : e.key # key)

\* an entry whose ttl has run out; it stays in the store until it is touched
LruIsStale(e, t) == t - e.start > cacheExpirationMs

\* cache.entries(): most recently used first, stale entries skipped
LruEntries(c, t) == SelectSeq(c, LAMBDA e : ~LruIsStale(e, t))

\* the size eviction of a set: least recently used entries leave while the
\* new size does not fit; [cache, disposed]
RECURSIVE LruEvictFor(_, _, _)
LruEvictFor(c, size, disposed) ==
    IF c # <<>> /\ CalculatedSize(c) > maxCacheSize - size
    THEN LruEvictFor(SubSeq(c, 1, Len(c) - 1), size, disposed + 1)
    ELSE [cache |-> c, disposed |-> disposed]

\* the count eviction of a set that adds a key: [cache, disposed]
LruEvictCount(c) ==
    IF Len(c) >= LruMax
    THEN [cache |-> SubSeq(c, 1, Len(c) - 1), disposed |-> 1]
    ELSE [cache |-> c, disposed |-> 0]

\* a store whose set leaves the value of a key it already holds in place
LruSetKeepFirst(c, key, value, size, sameObject, t) ==
    IF LruHas(c, key)
    THEN [cache |-> <<[c[LruIndex(c, key)] EXCEPT !.start = t]>> \o LruWithout(c, key),
          disposed |-> 0]
    ELSE [cache |-> <<[key |-> key, value |-> value, size |-> size, start |-> t]>>
                     \o LruEvictFor(c, size, 0).cache,
          disposed |-> LruEvictFor(c, size, 0).disposed]

\* an LRUCache without maxSize: a set never rejects and never evicts by size
LruSetUnbounded(c, key, value, size, sameObject, t) ==
    [cache |-> <<[key |-> key, value |-> value, size |-> size, start |-> t]>>
                 \o LruWithout(c, key),
     disposed |-> IF LruHas(c, key) /\ ~sameObject THEN 1 ELSE 0]

\* cache.set(key, value): [cache, disposed], disposed the number of dispose
\* calls.  sameObject: the value is the very object already stored under key.
LruSet(c, key, value, size, sameObject, t) ==
    IF size > maxCacheSize
    THEN [cache |-> LruWithout(c, key),
          disposed |-> IF LruHas(c, key) THEN 1 ELSE 0]
    ELSE IF ~LruHas(c, key)
    THEN LET counted == LruEvictCount(c)
             fitted  == LruEvictFor(counted.cache, size, counted.disposed)
         IN  [cache |-> <<[key |-> key, value |-> value, size |-> size, start |-> t]>>
                          \o fitted.cache,
              disposed |-> fitted.disposed]
    ELSE IF sameObject
    THEN LET old == c[LruIndex(c, key)]
         IN  [cache |-> <<[old EXCEPT !.start = t]>> \o LruWithout(c, key),
              disposed |-> 0]
    ELSE LET fitted == LruEvictFor(LruWithout(c, key), size, 1)
         IN  [cache |-> <<[key |-> key, value |-> value, size |-> size, start |-> t]>>
                          \o fitted.cache,
              disposed |-> fitted.disposed]

\* cache.get(key): [cache, disposed, found, value]; a stale entry is deleted
LruGet(c, key, t) ==
    IF ~LruHas(c, key)
    THEN [cache |-> c, disposed |-> 0, found |-> FALSE]
    ELSE LET e == c[LruIndex(c, key)]
         IN  IF LruIsStale(e, t)
             THEN [cache |-> LruWithout(c, key), disposed |-> 1, found |-> FALSE]
             ELSE [cache |-> <<e>> \o LruWithout(c, key), disposed |-> 0,
                   found |-> TRUE, value |-> e.value]

\* cache.delete(key): [cache, disposed]
LruDelete(c, key) ==
    [cache |-> LruWithout(c, key), disposed |-> IF LruHas(c, key) THEN 1 ELSE 0]

----------------------------------------------------------------------------
(* CacheManager *)

Keys == {"k1", "k2", "k3"}

\* JSON.stringify of an array of plain names: ["a","b"]
RECURSIVE JsonItemsLen(_)
JsonItemsLen(arr) ==
    IF arr = <<>> THEN 0
    ELSE Len(Head(arr)) + 2 + (IF Len(arr) > 1 THEN 1 ELSE 0) + JsonItemsLen(Tail(arr))

\* JSON.stringify({symbols, dependencies}).length:
\* {"symbols":[ ],"dependencies":[ ]} has 32 characters around the items
JsonMetadataLen(symbols, dependencies) ==
    32 + JsonItemsLen(symbols) + JsonItemsLen(dependencies)

calculateEntrySize(ctx) ==
    Len(ctx.extractedCode) + Len(JoinWith(ctx.imports, <<>>))
        + JsonMetadataLen(ctx.symbols, ctx.dependencies)

\* maxAge * getRecencyWeight(timestamp): the weight in units of 1 / maxAge
RecencyWeight(timestamp, t) == Max(0, cacheExpirationMs - (t - timestamp))

\* 1000 * Math.log(n), rounded
Ln1000 == <<0, 693, 1099, 1386, 1609, 1792, 1946, 2079, 2197, 2303, 2398, 2485>>

\* "map.get(key) || 0"
OrZero(v) == IF v = undefined THEN 0 ELSE v

\* the score of getEntriesByRelevance, times 100000:
\* relevance * 0.4 + recencyWeight * 0.3 + Math.log(accessCount + 1) / 10 * 0.3
EntryScore(e, counts, accessed, t) ==
    e.value.relevanceScore * 400
        + (30000 * RecencyWeight(OrZero(accessed[e.key]), t)) \div cacheExpirationMs
        + 3 * Ln1000[OrZero(counts[e.key]) + 1]

\* Array.prototype.sort((a, b) => b.score - a.score), stable
RECURSIVE InsertByScore(_, _)
InsertByScore(sorted, x) ==
    IF sorted = <<>> THEN <<x>>
    ELSE IF Head(sorted).score >= x.score
    THEN <<Head(sorted)>> \o InsertByScore(Tail(sorted), x)
    ELSE <<x>> \o sorted

RECURSIVE SortByScore(_)
SortByScore(arr) ==
    IF arr = <<>> THEN <<>>
    ELSE InsertByScore(SortByScore(SubSeq(arr, 1, Len(arr) - 1)), arr[Len(arr)])

\* getEntriesByRelevance: [key, context, score], highest score first
getEntriesByRelevance(c, counts, accessed, t) ==
    LET es == LruEntries(c, t)
    IN  SortByScore([k \in 1..Len(es) |->
                        [key |-> es[k].key, context |-> es[k].value,
                         score |-> EntryScore(es[k], counts, accessed, t)]])

\* the state the private helpers work on
Mgr(c, st, counts, accessed) ==
    [cache |-> c, stats |-> st, accessCounts |-> counts, lastAccessed |-> accessed]

\* onEviction, run once for each value the store disposed of
Disposed(st, n) == [st EXCEPT !.evictionCount = @ + n]

\* updateAccessStats
updateAccessStats(m, key, t) ==
    [m EXCEPT !.accessCounts[key] = OrZero(@) + 1, !.lastAccessed[key] = t]

\* updateStats
updateStats(m) ==
    [m EXCEPT !.stats.totalEntries = LruSize(m.cache),
              !.stats.totalSize = CalculatedSize(m.cache)]

\* cache.delete(key); accessCounts.delete(key); lastAccessed.delete(key)
DeleteEntry(m, key) ==
    LET d == LruDelete(m.cache, key)
    IN  [m EXCEPT !.cache = d.cache, !.stats = Disposed(@, d.disposed),
                  !.accessCounts[key] = undefined, !.lastAccessed[key] = undefined]

\* the loop of freeSpace over entries[i], i downwards
RECURSIVE FreeLoop(_, _, _, _, _)
FreeLoop(m, entries, i, freedSpace, targetSize) ==
    IF i >= 1 /\ freedSpace < targetSize
    THEN LET entry == entries[i]
             freed == DeleteEntry(m, entry.key)
         IN  FreeLoop([freed EXCEPT !.stats.evictionCount = @ + 1],
                      entries, i - 1,
                      freedSpace + calculateEntrySize(entry.context), targetSize)
    ELSE m

freeSpace(m, targetSize, t) ==
    LET entries == getEntriesByRelevance(m.cache, m.accessCounts, m.lastAccessed, t)
    IN  FreeLoop(m, entries, Len(entries), 0, targetSize)

\* ensureCapacity; maxCacheSize * 0.1 is a whole number for the instance
ensureCapacity(m, requiredSize, t) ==
    LET availableSpace == maxCacheSize - m.stats.totalSize
    IN  IF availableSpace < requiredSize
        THEN freeSpace(m, requiredSize - availableSpace + maxCacheSize \div 10, t)
        ELSE m

\* set without the relevance filter
setUnfiltered(m, key, ctx0, sameObject, t) ==
    LET ctx == IF ctx0.tokenCount > maxTokensPerEntry THEN truncateContext(ctx0)
               ELSE ctx0
        roomy == ensureCapacity(m, calculateEntrySize(ctx), t)
        put == LruSet(roomy.cache, key, ctx, calculateEntrySize(ctx),
                      sameObject /\ ctx = ctx0, t)
        stored == [roomy EXCEPT !.cache = put.cache,
                                !.stats = Disposed(@, put.disposed)]
    IN  updateStats(updateAccessStats(stored, key, t))

\* set: the manager after set(key, ctx0)
set(m, key, ctx0, sameObject, t) ==
    LET ctx == IF ctx0.tokenCount > maxTokensPerEntry THEN truncateContext(ctx0)
               ELSE ctx0
    IN  IF ctx.relevanceScore < relevanceThreshold THEN m
        ELSE LET roomy == ensureCapacity(m, calculateEntrySize(ctx), t)
                 put == LruSet(roomy.cache, key, ctx, calculateEntrySize(ctx),
                               sameObject /\ ctx = ctx0, t)
                 stored == [roomy EXCEPT !.cache = put.cache,
                                         !.stats = Disposed(@, put.disposed)]
             IN  updateStats(updateAccessStats(stored, key, t))

\* get that answers a hit without counting the access
getUncounted(m, key, t) ==
    LET g == LruGet(m.cache, key, t)
        touched == [m EXCEPT !.cache = g.cache, !.stats = Disposed(@, g.disposed)]
    IN  IF g.found THEN [m |-> touched, returned |-> Present(g.value)]
        ELSE [m |-> touched, returned |-> Absent]

\* get: [m, returned]; returned is [present, value], absent for null
get(m, key, t) ==
    LET g == LruGet(m.cache, key, t)
        touched == [m EXCEPT !.cache = g.cache, !.stats = Disposed(@, g.disposed)]
    IN  IF g.found
        THEN [m |-> updateAccessStats(touched, key, t), returned |-> Present(g.value)]
        ELSE [m |-> touched, returned |-> Absent]

\* the keys of the entries() whose context.filePath is filePath, in order
KeysOfFile(c, filePath, t) ==
    LET es == SelectSeq(LruEntries(c, t), LAMBDA e : e.value.filePath = filePath)
    IN  [k \in 1..Len(es) |-> es[k].key]

RECURSIVE TouchAll(_, _, _)
TouchAll(m, keys, t) ==
    IF keys = <<>> THEN m
    ELSE TouchAll(updateAccessStats(m, Head(keys), t), Tail(keys), t)

\* the sort of getByFilePath: relevanceScore * recencyWeight(timestamp), stable
RECURSIVE InsertByRecency(_, _, _)
InsertByRecency(sorted, x, t) ==
    IF sorted = <<>> THEN <<x>>
    ELSE IF Head(sorted).relevanceScore * RecencyWeight(Head(sorted).timestamp, t)
                >= x.relevanceScore * RecencyWeight(x.timestamp, t)
    THEN <<Head(sorted)>> \o InsertByRecency(Tail(sorted), x, t)
    ELSE <<x>> \o sorted

RECURSIVE SortByRecency(_, _)
SortByRecency(arr, t) ==
    IF arr = <<>> THEN <<>>
    ELSE InsertByRecency(SortByRecency(SubSeq(arr, 1, Len(arr) - 1), t), arr[Len(arr)], t)

\* getByFilePath: [m, returned]
getByFilePath(m, filePath, t) ==
    LET es == SelectSeq(LruEntries(m.cache, t), LAMBDA e : e.value.filePath = filePath)
    IN  [m |-> TouchAll(m, KeysOfFile(m.cache, filePath, t), t),
         returned |-> SortByRecency([k \in 1..Len(es) |-> es[k].value], t)]

RECURSIVE DeleteAll(_, _)
DeleteAll(m, keys) ==
    IF keys = <<>> THEN m ELSE DeleteAll(DeleteEntry(m, Head(keys)), Tail(keys))

\* invalidateFile
invalidateFile(m, filePath, t) ==
    updateStats(DeleteAll(m, KeysOfFile(m.cache, filePath, t)))

\* clear that also resets the statistics
clearResetStats(m) ==
    updateStats([m EXCEPT !.cache = <<>>,
                          !.stats.evictionCount = 0,
                          !.accessCounts = [k \in Keys |-> undefined],
                          !.lastAccessed = [k \in Keys |-> undefined]])

\* clear: cache.clear() disposes of every entry
clear(m) ==
    updateStats([m EXCEPT !.cache = <<>>,
                          !.stats = Disposed(@, Len(m.cache)),
                          !.accessCounts = [k \in Keys |-> undefined],
                          !.lastAccessed = [k \in Keys |-> undefined]])

\* shouldEvictEntry under the policy "lru", the only one the class ever sets:
\* createCacheEntry takes "lastAccessed.get(key) || Date.now()"
shouldEvictEntry(m, key, t) ==
    LET entryLastAccessed == IF OrZero(m.lastAccessed[key]) = 0 THEN t
                             ELSE m.lastAccessed[key]
    IN  entryLastAccessed < t - cacheExpirationMs

\* optimizeCache: [m, returned]
optimizeCache(m, t) ==
    LET initialSize == LruSize(m.cache)
        initialEntries == m.stats.totalEntries
        entries == getEntriesByRelevance(m.cache, m.accessCounts, m.lastAccessed, t)
        \* Math.floor(entries.length * 0.2); slice(-0) is the whole array
        entriesToRemove == Len(entries) \div 5
        lowValueEntries ==
            IF entriesToRemove = 0 THEN entries
            ELSE SubSeq(entries, Len(entries) - entriesToRemove + 1, Len(entries))
        \* cacheUtilization > 0.8
        thinned ==
            IF m.stats.totalSize * 10 > maxCacheSize * 8
            THEN DeleteAll(m, [k \in 1..Len(lowValueEntries) |-> lowValueEntries[k].key])
            ELSE m
        live == LruEntries(thinned.cache, t)
        doomed == SelectSeq([k \in 1..Len(live) |-> live[k].key],
                            LAMBDA key : shouldEvictEntry(thinned, key, t))
        swept == updateStats(DeleteAll(thinned, doomed))
    IN  [m |-> swept,
         returned |-> [removedEntries |-> initialEntries - swept.stats.totalEntries,
                       spaceSaved |-> initialSize - LruSize(swept.cache)]]

----------------------------------------------------------------------------
(* CodeReferenceOptimizer *)

estimateTokenCount(text) == CeilDiv(Len(text), 4)

\* the loop of truncateToTokenLimit: [kept, currentTokens]
RECURSIVE KeepTokens(_, _, _)
KeepTokens(lines, acc, maxTokens) ==
    IF lines = <<>> THEN acc
    ELSE LET lineTokens == estimateTokenCount(Head(lines))
         IN  IF acc.currentTokens + lineTokens > maxTokens THEN acc
             ELSE KeepTokens(Tail(lines),
                             [kept |-> Append(acc.kept, Head(lines)),
                              currentTokens |-> acc.currentTokens + lineTokens],
                             maxTokens)

truncateToTokenLimit(ctx, maxTokens) ==
    IF ctx.tokenCount <= maxTokens THEN ctx
    ELSE LET acc == KeepTokens(Split(ctx.extractedCode),
                               [kept |-> <<>>,
                                currentTokens |-> estimateTokenCount(Join(ctx.imports))],
                               maxTokens)
         IN  [ctx EXCEPT !.extractedCode = Join(acc.kept),
                         !.tokenCount = acc.currentTokens]

\* the UTF-16 code units of the characters a symbol name is written with
CharCode == ("a" :> 97) @@ ("b" :> 98)

\* a < b in the order of Array.prototype.sort without a comparator
RECURSIVE StrLess(_, _)
StrLess(a, b) ==
    IF b = <<>> THEN FALSE
    ELSE IF a = <<>> THEN TRUE
    ELSE IF CharCode[Head(a)] # CharCode[Head(b)]
    THEN CharCode[Head(a)] < CharCode[Head(b)]
    ELSE StrLess(Tail(a), Tail(b))

RECURSIVE InsertStr(_, _)
InsertStr(sorted, x) ==
    IF sorted = <<>> THEN <<x>>
    ELSE IF StrLess(x, Head(sorted)) THEN <<x>> \o sorted
    ELSE <<Head(sorted)>> \o InsertStr(Tail(sorted), x)

\* targetSymbols.sort(): the sorted array (the call sorts in place)
RECURSIVE SortStrings(_)
SortStrings(arr) ==
    IF arr = <<>> THEN <<>>
    ELSE InsertStr(SortStrings(SubSeq(arr, 1, Len(arr) - 1)), arr[Len(arr)])

Given(list) == [given |-> TRUE, list |-> list]
NotGiven == [given |-> FALSE, list |-> <<>>]

WithImports == <<"w","i","t","h","-","i","m","p","o","r","t","s">>
NoImports == <<"n","o","-","i","m","p","o","r","t","s">>
AllToken == <<"a","l","l">>

\* generateCacheKey that joins the symbols in the order given
generateCacheKeyUnsorted(filePath, targetSymbols, includeImports) ==
    LET symbolsKey == IF targetSymbols.given
                      THEN JoinWith(targetSymbols.list, <<",">>)
                      ELSE AllToken
        importsKey == IF includeImports = "true" THEN WithImports ELSE NoImports
    IN  filePath \o <<":">> \o symbolsKey \o <<":">> \o importsKey

\* generateCacheKey: the key; includeImports is "true", "false" or "undefined"
generateCacheKey(filePath, targetSymbols, includeImports) ==
    LET symbolsKey == IF targetSymbols.given
                      THEN JoinWith(SortStrings(targetSymbols.list), <<",">>)
                      ELSE AllToken
        importsKey == IF includeImports = "true" THEN WithImports ELSE NoImports
    IN  filePath \o <<":">> \o symbolsKey \o <<":">> \o importsKey

\* what generateCacheKey leaves in the caller's targetSymbols array
SortedInPlace(targetSymbols) ==
    IF targetSymbols.given THEN Given(SortStrings(targetSymbols.list))
    ELSE targetSymbols

\* isStale that counts a context of exactly maxAge as stale
isStaleAtMaxAge(ctx, t) == t - ctx.timestamp >= 5 * 60 * 1000

\* isStale: maxAge is 5 minutes, in milliseconds
isStale(ctx, t) == t - ctx.timestamp > 5 * 60 * 1000

\* String.prototype.includes
Includes(text, sub) ==
    \E i \in 0..(Len(text) - Len(sub)) : SubSeq(text, i + 1, i + Len(sub)) = sub

extractUsedSymbols(ex) == SelectSeq(ex.symbols, LAMBDA sym : Includes(ex.code, sym))

SeqHas(arr, x) == \E k \in 1..Len(arr) : arr[k] = x

\* calculateRelevanceScore, in hundredths
calculateRelevanceScore(ex, targetSymbols) ==
    IF ~targetSymbols.given \/ Len(targetSymbols.list) = 0 THEN 100
    ELSE (100 * Len(SelectSeq(ex.symbols, LAMBDA sym : SeqHas(targetSymbols.list, sym))))
            \div Len(targetSymbols.list)

\* maxTokens || 1000 : maxTokens is undefined when the request has none
TokenBudget(maxTokens) ==
    IF maxTokens = undefined \/ maxTokens = 0 THEN 1000 ELSE maxTokens

\* optimizeImports that reports the optimized imports missing from the originals
optimizeImportsSwapped(original, optimized) ==
    [optimizedImports |-> optimized,
     removedImports |-> SelectSeq(optimized, LAMBDA imp : ~SeqHas(original, imp)),
     tokenSavings |-> estimateTokenCount(Join(original))
                        - estimateTokenCount(Join(optimized))]

\* optimizeImports: what it resolves to, given what extractImports and
\* getMinimalImports resolved to
optimizeImports(original, optimized) ==
    [optimizedImports |-> optimized,
     removedImports |-> SelectSeq(original, LAMBDA imp : ~SeqHas(optimized, imp)),
     tokenSavings |-> estimateTokenCount(Join(original))
                        - estimateTokenCount(Join(optimized))]

----------------------------------------------------------------------------
(* Inputs of the diff specifications *)

Str(c) == <<c>>
LineValues == {<<>>, Str("a"), Str("b")}

\* every sequence of 1..n lines
LineSeqs(n) == UNION {[1..k -> LineValues] : k \in 1..n}

Texts == {Join(ls) : ls \in LineSeqs(MaxLines)}

\* the scenario of the test "merges remove+add blocks into modified"
MergeOld == Join(<<Str("a"), Str("b"), Str("c"), Str("d")>>)
MergeNew == Join(<<Str("a"), <<"b","2">>, <<"c","2">>, Str("d")>>)

\* the scenario of the test "applies added, removed, and modified changes"
ApplyOriginal == Join(<<Str("1"), Str("2"), Str("3"), Str("4")>>)
ApplyHunks ==
    <<DiffChange("removed", 2, 2, undefined, undefined, Str("2")),
      DiffChange("modified", 3, 3, 3, 3, Str("x")),
      DiffChange("added", undefined, undefined, 4, 4, Str("i"))>>
ApplyExpected == Join(<<Str("1"), Str("x"), Str("i"), Str("4")>>)

HunkContents == {<<>>, Str("x"), Join(<<Str("x"), Str("y")>>)}

\* the hand-written hunks that are well-formed for a text of n lines
WellFormedHunks(n) ==
    {DiffChange("removed", s, e, undefined, undefined, <<>>) :
        s \in 1..n, e \in 1..n}
    \cup {DiffChange("modified", s, e, s, s + Len(Split(c)) - 1, c) :
        s \in 1..n, e \in 1..n, c \in HunkContents}
    \cup {DiffChange("added", undefined, undefined, 1, Len(Split(c)), c) :
        c \in HunkContents}

HasOld(ch) == ch.oldStart # undefined

Overlap(a, b) ==
    HasOld(a) /\ HasOld(b) /\ a.oldStart <= b.oldEnd /\ b.oldStart <= a.oldEnd

----------------------------------------------------------------------------
(* Inputs of the truncation and extraction specifications *)

CodeLineValues == {Rep(0), Rep(3), Rep(4), Rep(9)}
CodeTexts == {Join(ls) : ls \in UNION {[1..k -> CodeLineValues] : k \in 1..MaxCodeLines}}
ImportLists == {<<>>, <<Rep(4)>>, <<Rep(4), Rep(9)>>}
FilePaths == {<<"f">>, <<"g">>}
Budgets == {1, 2, 3}
\* a tokenCount that is not the estimate of the text, as in the test's 9999
StaleTokenCount == 9999

ContextOf(code, imports, tokenCount) ==
    CodeContext(<<"f">>, code, imports, <<>>, <<>>, tokenCount, 0, 100)

TruncInputs ==
    UNION {{ContextOf(c, i, estimateTokenCount(c \o Join(i))),
            ContextOf(c, i, StaleTokenCount)} : c \in CodeTexts, i \in ImportLists}

TargetNames == {<<"a">>, <<"b">>, <<"a", "b">>}
TargetLists ==
    {NotGiven} \cup
    {Given(l) : l \in UNION {[1..k -> TargetNames] : k \in 0..MaxSymbols}}

Requests ==
    [filePath : FilePaths, targetSymbols : TargetLists,
     includeImports : {"undefined", "true", "false"},
     maxTokens : {undefined, 1, 3}]

\* the instant of the request, in milliseconds
RequestTime == 1000000

\* what the cache collaborator can answer a get with
CachedAnswers ==
    {Absent} \cup
    {Present(CodeContext(<<"f">>, c, i, <<>>, <<>>,
                         IF honest THEN estimateTokenCount(c \o Join(i))
                         ELSE StaleTokenCount,
                         t, 100)) :
        c \in {Rep(3), Join(<<Rep(4), Rep(9)>>)},
        i \in {<<>>, <<Rep(4), Rep(9)>>},
        honest \in BOOLEAN,
        t \in {RequestTime - 300000, RequestTime - 300001}}

\* what the parser collaborator can answer extractContext with
ParserAnswers ==
    [code : {<<"a">> \o Rep(3), Join(<<Rep(4), Rep(9)>>)},
     symbols : {<<>>, <<<<"a">>, <<"b">>>>},
     dependencies : {<<>>}]

----------------------------------------------------------------------------
(* What each specification leaves untouched *)

DiffIdle ==
    /\ oldText = <<>> /\ newText = <<>> /\ changes = <<>>
    /\ result = <<>> /\ dphase = "idle"

TruncIdle ==
    /\ tctx = ContextOf(<<>>, <<>>, 0) /\ tbudget = 0 /\ tkind = "none"
    /\ tonce = tctx /\ ttwice = tctx /\ tphase = "idle"

NoContext == CodeContext(<<>>, <<>>, <<>>, <<>>, <<>>, 0, 0, 0)
NoExtract == [code |-> <<>>, symbols |-> <<>>, dependencies |-> <<>>]

ExtractIdle ==
    /\ options = [filePath |-> <<>>, targetSymbols |-> NotGiven,
                  includeImports |-> "undefined", maxTokens |-> undefined]
    /\ supplied = NotGiven
    /\ cacheKey = <<>>
    /\ cached = Absent
    /\ extractedContext = NoExtract
    /\ context = NoContext
    /\ returned = NoContext
    /\ calls = <<>>
    /\ epc = "idle"

\* the manager the constructor leaves
NoCall == [op |-> "none"]
NewManager ==
    Mgr(<<>>, [totalEntries |-> 0, totalSize |-> 0, evictionCount |-> 0],
        [k \in Keys |-> undefined], [k \in Keys |-> undefined])

ImportIdle ==
    /\ originalImports = <<>> /\ minimalImports = <<>>
    /\ importsReturned = [optimizedImports |-> <<>>, removedImports |-> <<>>,
                          tokenSavings |-> 0]
    /\ ipc = "idle"

AsyncIdle == pending = <<>> /\ requests = <<>>

CacheIdle ==
    /\ cache = <<>>
    /\ stats = NewManager.stats
    /\ accessCounts = NewManager.accessCounts
    /\ lastAccessed = NewManager.lastAccessed
    /\ cacheCall = NoCall
    /\ nops = 0

----------------------------------------------------------------------------
(* The diff specification: computeDiff on a pair of texts, then applyDiff   *)

InitDiff ==
    /\ oldText \in Texts \cup {MergeOld}
    /\ newText \in Texts \cup {MergeNew}
    /\ changes = <<>>
    /\ result = <<>>
    /\ dphase = "input"
    /\ SnapIdle /\ TruncIdle /\ ExtractIdle /\ CacheIdle /\ ImportIdle /\ AsyncIdle /\ now = 1

ComputeDiff ==
    /\ dphase = "input"
    /\ changes' = computeDiff(oldText, newText)
    /\ dphase' = "diffed"
    /\ UNCHANGED <<oldText, newText, result, snapVars, truncVars, extractVars, cacheVars, importVars, asyncVars, now>>

ApplyDiff ==
    /\ dphase = "diffed"
    /\ result' = applyDiff(oldText, changes)
    /\ dphase' = "applied"
    /\ UNCHANGED <<oldText, newText, changes, snapVars, truncVars, extractVars, cacheVars, importVars, asyncVars, now>>

NextDiff == ComputeDiff \/ ApplyDiff

SpecDiff == InitDiff /\ [][NextDiff]_vars

(* The patch specification: applyDiff on hand-written hunks *)

InitPatch ==
    /\ \/ oldText \in Texts /\ changes = <<>>
       \/ oldText = ApplyOriginal /\ changes = ApplyHunks
    /\ newText = <<>>
    /\ result = <<>>
    /\ dphase = "hunks"
    /\ SnapIdle /\ TruncIdle /\ ExtractIdle /\ CacheIdle /\ ImportIdle /\ AsyncIdle /\ now = 1

WriteHunk ==
    /\ dphase = "hunks"
    /\ Len(changes) < MaxHunks
    /\ \E ch \in WellFormedHunks(Len(Split(oldText))) :
          /\ HasOld(ch) => ch.oldStart <= ch.oldEnd
          /\ \A k \in 1..Len(changes) : ~Overlap(ch, changes[k])
          /\ changes' = Append(changes, ch)
    /\ UNCHANGED <<oldText, newText, result, dphase, snapVars, truncVars,
                   extractVars, cacheVars, importVars, asyncVars, now>>

ApplyHunkList ==
    /\ dphase = "hunks"
    /\ result' = applyDiff(oldText, changes)
    /\ dphase' = "patched"
    /\ UNCHANGED <<oldText, newText, changes, snapVars, truncVars, extractVars, cacheVars, importVars, asyncVars, now>>

NextPatch == WriteHunk \/ ApplyHunkList

SpecPatch == InitPatch /\ [][NextPatch]_vars

(* The snapshot specification: the calls on the snapshot store *)

InitSnapshots ==
    DiffIdle /\ InitSnap /\ TruncIdle /\ ExtractIdle /\ CacheIdle /\ ImportIdle /\ AsyncIdle /\ now = 1

SnapFrame == UNCHANGED <<diffVars, truncVars, extractVars, cacheVars, importVars, asyncVars, now>>

CreateSnapshotFromContent ==
    /\ \E f \in Files, t \in SnapshotTexts : createSnapshotFromContent(f, t)
    /\ SnapFrame

CreateSymbolSnapshots ==
    /\ \E f \in Files, m \in SymbolMaps : createSymbolSnapshots(f, m)
    /\ SnapFrame

GenerateSymbolDiff ==
    /\ \E f \in Files, m \in SymbolMaps : generateSymbolDiff(f, m)
    /\ SnapFrame

GenerateFileDiff ==
    /\ \E f \in Files, r \in {Absent} \cup {Present(t) : t \in SnapshotTexts} :
          generateFileDiff(f, r)
    /\ SnapFrame

ClearSnapshots == clearSnapshots /\ SnapFrame

ClearFileSnapshots ==
    /\ \E f \in Files : clearFileSnapshots(f)
    /\ SnapFrame

NextSnapshots ==
    \/ CreateSnapshotFromContent
    \/ CreateSymbolSnapshots
    \/ GenerateSymbolDiff
    \/ GenerateFileDiff
    \/ ClearSnapshots
    \/ ClearFileSnapshots

SpecSnapshots == InitSnapshots /\ [][NextSnapshots]_vars

(* The analysis specification: two analyzeCodeDiff requests on one          *)
(* DiffManager, each suspended at its awaits                                *)

\* the contents the requests carry
AnalyzeContents == {<<>>, <<"o">>, <<"n">>}

\* what extractSymbolsFromContent resolves to for these contents: a content
\* is the one line that declares the symbol foo, which extractSymbolCode
\* returns as the code of foo; the empty content declares nothing
extractSymbolsFromContent(content) ==
    IF content = <<>> THEN <<>> ELSE <<[name |-> "foo", code |-> content]>>

\* symbolChanges.map: type, symbol, code and lineNumber of each change
ChangesOf(symbolChanges) ==
    [k \in 1..Len(symbolChanges) |->
        [type |-> symbolChanges[k].type, symbol |-> symbolChanges[k].symbol,
         code |-> symbolChanges[k].code, lineNumber |-> symbolChanges[k].lineNumber]]

RequestIds == {1, 2}

InitAnalyze ==
    /\ requests \in [RequestIds ->
                        [filePath : Files, oldContent : AnalyzeContents,
                         newContent : AnalyzeContents, pc : {"start"},
                         changes : {<<>>}]]
    /\ pending = <<>>
    /\ DiffIdle /\ InitSnap /\ TruncIdle /\ ExtractIdle /\ CacheIdle /\ ImportIdle
    /\ now = 1

AnalyzeFrame ==
    UNCHANGED <<diffVars, truncVars, extractVars, cacheVars, importVars, pending, now>>

\* the request is made: createSnapshotFromContent, then the await of
\* extractSymbolsFromContent(oldContent)
AnalyzeBegin ==
    /\ \E r \in RequestIds :
          /\ requests[r].pc = "start"
          /\ createSnapshotFromContent(requests[r].filePath, requests[r].oldContent)
          /\ requests' = [requests EXCEPT ![r].pc = "oldSymbols"]
    /\ AnalyzeFrame

\* oldSymbols has resolved: createSymbolSnapshots, then the await of
\* extractSymbolsFromContent(newContent)
AnalyzeSnapshot ==
    /\ \E r \in RequestIds :
          /\ requests[r].pc = "oldSymbols"
          /\ createSymbolSnapshots(requests[r].filePath,
                                   extractSymbolsFromContent(requests[r].oldContent))
          /\ requests' = [requests EXCEPT ![r].pc = "newSymbols"]
    /\ AnalyzeFrame

\* newSymbols has resolved: generateSymbolDiff, and the request returns what
\* it gave (or rejects with what it threw)
AnalyzeDiff ==
    /\ \E r \in RequestIds :
          /\ requests[r].pc = "newSymbols"
          /\ generateSymbolDiff(requests[r].filePath,
                                extractSymbolsFromContent(requests[r].newContent))
          /\ requests' = [requests EXCEPT ![r].pc = "done",
                                          ![r].changes = ChangesOf(snapCall'.returned)]
    /\ AnalyzeFrame

NextAnalyze ==
    \/ AnalyzeBegin
    \/ AnalyzeSnapshot
    \/ AnalyzeDiff

SpecAnalyze == InitAnalyze /\ [][NextAnalyze]_vars

(* The truncation specification: a truncation applied, and applied again *)

InitTruncate ==
    /\ tctx \in TruncInputs
    /\ tbudget \in Budgets
    /\ tkind \in {"cache", "optimizer"}
    /\ tonce = tctx /\ ttwice = tctx
    /\ tphase = "input"
    /\ DiffIdle /\ SnapIdle /\ ExtractIdle /\ CacheIdle /\ ImportIdle /\ AsyncIdle /\ now = 1

Truncated(kind, ctx, budget) ==
    IF kind = "cache" THEN truncateContext(ctx)
    ELSE truncateToTokenLimit(ctx, budget)

TruncateOnce ==
    /\ tphase = "input"
    /\ tonce' = Truncated(tkind, tctx, tbudget)
    /\ tphase' = "once"
    /\ UNCHANGED <<tctx, tbudget, tkind, ttwice, diffVars, snapVars, extractVars, cacheVars, importVars, asyncVars, now>>

TruncateAgain ==
    /\ tphase = "once"
    /\ ttwice' = Truncated(tkind, tonce, tbudget)
    /\ tphase' = "twice"
    /\ UNCHANGED <<tctx, tbudget, tkind, tonce, diffVars, snapVars, extractVars, cacheVars, importVars, asyncVars, now>>

NextTruncate == TruncateOnce \/ TruncateAgain

SpecTruncate == InitTruncate /\ [][NextTruncate]_vars

(* The extraction specification: one extractCodeContext request against     *)
(* its collaborators, one step per await                                    *)

InitExtract ==
    /\ options \in Requests
    /\ supplied = options.targetSymbols
    /\ cacheKey = <<>>
    /\ cached = Absent
    /\ extractedContext = NoExtract
    /\ context = NoContext
    /\ returned = NoContext
    /\ calls = <<>>
    /\ epc = "start"
    /\ now = RequestTime
    /\ DiffIdle /\ SnapIdle /\ TruncIdle /\ CacheIdle /\ ImportIdle /\ AsyncIdle

ExtractFrame ==
    UNCHANGED <<diffVars, snapVars, truncVars, cacheVars, importVars, asyncVars, supplied, now>>

\* generateCacheKey, then await cacheManager.get(cacheKey)
Probe ==
    /\ epc = "start"
    /\ LET key == generateCacheKey(options.filePath, options.targetSymbols,
                                   options.includeImports)
       IN  /\ cacheKey' = key
           /\ calls' = Append(calls, [call |-> "get", key |-> key])
    /\ options' = [options EXCEPT !.targetSymbols = SortedInPlace(@)]
    /\ \E answer \in CachedAnswers : cached' = answer
    /\ epc' = "probed"
    /\ UNCHANGED <<extractedContext, context, returned>>
    /\ ExtractFrame

\* a request that never uses what the cache answered
CacheBypassed == FALSE

CacheUsable == cached.present /\ ~isStale(cached.value, now)

\* return this.truncateToTokenLimit(cached, maxTokens || 1000)
ReturnCached ==
    /\ epc = "probed"
    /\ CacheUsable
    /\ returned' = truncateToTokenLimit(cached.value, TokenBudget(options.maxTokens))
    /\ epc' = "done"
    /\ UNCHANGED <<options, cacheKey, cached, extractedContext, context, calls>>
    /\ ExtractFrame

\* await astParser.parseFile, await astParser.extractContext
Parse ==
    /\ epc = "probed"
    /\ ~CacheUsable
    /\ \E answer \in ParserAnswers : extractedContext' = answer
    /\ calls' = calls \o <<[call |-> "parseFile", filePath |-> options.filePath],
                           [call |-> "extractContext",
                            targetSymbols |-> options.targetSymbols]>>
    /\ epc' = "parsed"
    /\ UNCHANGED <<options, cacheKey, cached, context, returned>>
    /\ ExtractFrame

\* the context built from the parse and from optimizedImports
FreshContext(optimizedImports) ==
    CodeContext(options.filePath, extractedContext.code, optimizedImports,
                extractedContext.symbols, extractedContext.dependencies,
                estimateTokenCount(extractedContext.code \o Join(optimizedImports)),
                now,
                calculateRelevanceScore(extractedContext, options.targetSymbols))

\* await importAnalyzer.getMinimalImports when imports are requested, then
\* await cacheManager.set(cacheKey, context)
Store ==
    /\ epc = "parsed"
    /\ \/ /\ options.includeImports = "true"
          /\ \E imports \in ImportLists :
                /\ context' = FreshContext(imports)
                /\ calls' = calls \o
                      <<[call |-> "getMinimalImports",
                         usedSymbols |-> extractUsedSymbols(extractedContext)],
                        [call |-> "set", key |-> cacheKey,
                         context |-> FreshContext(imports)]>>
       \/ /\ options.includeImports # "true"
          /\ context' = FreshContext(<<>>)
          /\ calls' = Append(calls, [call |-> "set", key |-> cacheKey,
                                     context |-> FreshContext(<<>>)])
    /\ epc' = "stored"
    /\ UNCHANGED <<options, cacheKey, cached, extractedContext, returned>>
    /\ ExtractFrame

\* return this.truncateToTokenLimit(context, maxTokens || 1000)
ReturnFresh ==
    /\ epc = "stored"
    /\ returned' = truncateToTokenLimit(context, TokenBudget(options.maxTokens))
    /\ epc' = "done"
    /\ UNCHANGED <<options, cacheKey, cached, extractedContext, context, calls>>
    /\ ExtractFrame

NextExtract == Probe \/ ReturnCached \/ Parse \/ Store \/ ReturnFresh

SpecExtract == InitExtract /\ [][NextExtract]_vars

----------------------------------------------------------------------------
(* The imports specification: one optimizeImports request                   *)

ImportTexts == {<<"a">>, <<"b">>, <<"a", "b", "a", "b", "a">>}
ImportAnswers == UNION {[1..k -> ImportTexts] : k \in 0..MaxImports}

InitImports ==
    /\ originalImports \in ImportAnswers
    /\ minimalImports \in ImportAnswers
    /\ importsReturned = [optimizedImports |-> <<>>, removedImports |-> <<>>,
                          tokenSavings |-> 0]
    /\ ipc = "start"
    /\ DiffIdle /\ SnapIdle /\ TruncIdle /\ ExtractIdle /\ CacheIdle /\ AsyncIdle /\ now = 1

OptimizeImports ==
    /\ ipc = "start"
    /\ importsReturned' = optimizeImports(originalImports, minimalImports)
    /\ ipc' = "done"
    /\ UNCHANGED <<originalImports, minimalImports, diffVars, snapVars, truncVars,
                   extractVars, cacheVars, asyncVars, now>>

SpecImports == InitImports /\ [][OptimizeImports]_vars

----------------------------------------------------------------------------
(* The cache specification: a CacheManager under a run of calls, the clock  *)
(* moving between them                                                      *)

\* the contexts the callers pass to set
CacheContexts ==
    { \* a small entry of file f: 35 characters
      CodeContext(<<"f">>, Rep(3), <<>>, <<>>, <<>>, 1, 0, 100),
      \* an entry of file g at the token limit: 40 characters
      CodeContext(<<"g">>, Join(<<Rep(4), Rep(3)>>), <<>>, <<>>, <<>>, 2, 0, 60),
      \* over the token limit: set truncates it to two lines, 40 characters
      CodeContext(<<"f">>, Join(<<Rep(3), Rep(4), Rep(9)>>), <<>>, <<>>, <<>>, 5, 0, 100),
      \* below the relevance threshold
      CodeContext(<<"g">>, Rep(3), <<>>, <<>>, <<>>, 1, 0, 25),
      \* imports alone larger than the whole cache: 105 characters
      CodeContext(<<"f">>, Rep(3), <<Rep(70)>>, <<>>, <<>>, 19, 0, 100),
      \* an entry with imports and one symbol: 32 + 3 + 4 + 20 = 59 characters
      CodeContext(<<"g">>, Rep(4), <<Rep(20)>>, <<<<"s">>>>, <<>>, 6, 0, 75) }

Manager == Mgr(cache, stats, accessCounts, lastAccessed)

\* the manager variables take the fields of m; one more call has been made
Becomes(m, call) ==
    /\ cache' = m.cache
    /\ stats' = m.stats
    /\ accessCounts' = m.accessCounts
    /\ lastAccessed' = m.lastAccessed
    /\ cacheCall' = call
    /\ nops' = nops + 1

CacheFrame == UNCHANGED <<diffVars, snapVars, truncVars, extractVars, importVars, asyncVars>>

Init ==
    /\ DiffIdle /\ SnapIdle /\ TruncIdle /\ ExtractIdle /\ CacheIdle /\ ImportIdle /\ AsyncIdle
    /\ now = 1

Get ==
    /\ nops < MaxOps
    /\ \E key \in Keys :
          LET r == get(Manager, key, now)
          IN  Becomes(r.m, [op |-> "get", key |-> key, returned |-> r.returned])
    /\ UNCHANGED now /\ CacheFrame

Set ==
    /\ nops < MaxOps
    /\ \E key \in Keys, ctx \in CacheContexts, sameObject \in BOOLEAN :
          /\ sameObject =>
                /\ LruHas(cache, key)
                /\ cache[LruIndex(cache, key)].value = ctx
          /\ Becomes(set(Manager, key, ctx, sameObject, now),
                     [op |-> "set", key |-> key, context |-> ctx])
    /\ UNCHANGED now /\ CacheFrame

GetByFilePath ==
    /\ nops < MaxOps
    /\ \E filePath \in FilePaths :
          LET r == getByFilePath(Manager, filePath, now)
          IN  Becomes(r.m, [op |-> "getByFilePath", filePath |-> filePath,
                            returned |-> r.returned])
    /\ UNCHANGED now /\ CacheFrame

InvalidateFile ==
    /\ nops < MaxOps
    /\ \E filePath \in FilePaths :
          Becomes(invalidateFile(Manager, filePath, now),
                  [op |-> "invalidateFile", filePath |-> filePath])
    /\ UNCHANGED now /\ CacheFrame

Clear ==
    /\ nops < MaxOps
    /\ Becomes(clear(Manager), [op |-> "clear"])
    /\ UNCHANGED now /\ CacheFrame

OptimizeCache ==
    /\ nops < MaxOps
    /\ LET r == optimizeCache(Manager, now)
       IN  Becomes(r.m, [op |-> "optimizeCache", returned |-> r.returned])
    /\ UNCHANGED now /\ CacheFrame

\* time passes between two calls
Tick ==
    /\ now < MaxTime
    /\ now' = now + 1
    /\ UNCHANGED cacheVars /\ CacheFrame

Next ==
    \/ Get
    \/ Set
    \/ GetByFilePath
    \/ InvalidateFile
    \/ Clear
    \/ OptimizeCache
    \/ Tick

Spec == Init /\ [][Next]_vars

----------------------------------------------------------------------------
(* Set calls in flight.  set is an async function that awaits                *)
(* ensureCapacity, itself async: everything up to that await runs when set   *)
(* is called, the rest runs from the microtask queue, after whatever the     *)
(* callers did in between.                                                   *)

\* set, from its call to its await: [admitted, context, m, seen, ticks].
\* ticks is the number of microtask turns until set resumes: one for its own
\* await, one more when ensureCapacity awaited freeSpace.
setBegin(m, ctx0, t) ==
    LET ctx == IF ctx0.tokenCount > maxTokensPerEntry THEN truncateContext(ctx0)
               ELSE ctx0
        requiredSize == calculateEntrySize(ctx)
        admitted == ctx.relevanceScore >= relevanceThreshold
    IN  [admitted |-> admitted,
         context |-> ctx,
         m |-> IF admitted THEN ensureCapacity(m, requiredSize, t) ELSE m,
         seen |-> m.stats.totalSize,
         ticks |-> IF maxCacheSize - m.stats.totalSize < requiredSize THEN 2 ELSE 1]

\* set, from its await to its end
setResume(m, key, ctx, t) ==
    LET put == LruSet(m.cache, key, ctx, calculateEntrySize(ctx), FALSE, t)
        stored == [m EXCEPT !.cache = put.cache, !.stats = Disposed(@, put.disposed)]
    IN  updateStats(updateAccessStats(stored, key, t))

InitAdmit == Init

\* a caller calls set(key, ctx): the call runs up to its await
SetBegin ==
    /\ nops < MaxOps
    /\ \E key \in Keys, ctx \in CacheContexts :
          LET b == setBegin(Manager, ctx, now)
          IN  /\ Becomes(b.m, [op |-> "set", key |-> key, context |-> ctx])
              /\ pending' = IF b.admitted
                            THEN Append(pending, [key |-> key, context |-> b.context,
                                                  seen |-> b.seen, ticks |-> b.ticks])
                            ELSE pending
    /\ UNCHANGED <<diffVars, snapVars, truncVars, extractVars, importVars, requests, now>>

\* the microtask queue runs the oldest suspended call: ensureCapacity returns,
\* or set goes on to cache.set, updateAccessStats and updateStats
SetResume ==
    /\ pending # <<>>
    /\ LET h == Head(pending)
       IN  IF h.ticks > 1
           THEN /\ pending' = Append(Tail(pending), [h EXCEPT !.ticks = @ - 1])
                /\ UNCHANGED cacheVars
           ELSE LET m == setResume(Manager, h.key, h.context, now)
                IN  /\ cache' = m.cache
                    /\ stats' = m.stats
                    /\ accessCounts' = m.accessCounts
                    /\ lastAccessed' = m.lastAccessed
                    /\ pending' = Tail(pending)
                    /\ UNCHANGED <<cacheCall, nops>>
    /\ UNCHANGED <<diffVars, snapVars, truncVars, extractVars, importVars, requests, now>>

NextAdmit ==
    \/ SetBegin
    \/ SetResume
    \/ Get
    \/ Clear

SpecAdmit == InitAdmit /\ [][NextAdmit]_vars

----------------------------------------------------------------------------
(* Claims about the diff engine *)

\* C1 (as claimed): round trip. For every pair of texts, applying the
\* computed diff to the old text gives back the new text exactly.
C1_RoundTrip ==
    dphase = "applied" => result = newText

\* what the claim of C7 expects, stated on the runs of the op stream and not
\* on the loop of computeDiff: the 1-based old (new) line of the op at
\* position p counts the ops up to p that consume an old (a new) line
OldLineOf(ops, p) ==
    Cardinality({q \in 1..p : ops[q].type \in {"unchanged", "removed"}})
NewLineOf(ops, p) ==
    Cardinality({q \in 1..p : ops[q].type \in {"unchanged", "added"}})

\* positions where a maximal run of equal-typed ops starts
RunStarts(ops) ==
    {p \in 1..Len(ops) : p = 1 \/ ops[p-1].type # ops[p].type}
\* last position of the maximal run that starts at p
RunLast(ops, p) ==
    CHOOSE q \in p..Len(ops) :
        /\ \A r \in p..q : ops[r].type = ops[p].type
        /\ q = Len(ops) \/ ops[q+1].type # ops[p].type

LinesOf(ops, p, q) == [k \in 1..(q - p + 1) |-> ops[p + k - 1].content]

\* the run starts that yield a change: every removed run, and every added
\* run that does not directly follow a removed run
ChangeStarts(ops) ==
    {p \in RunStarts(ops) :
        \/ ops[p].type = "removed"
        \/ ops[p].type = "added" /\ (p = 1 \/ ops[p-1].type # "removed")}

ExpectedChangeAt(ops, p) ==
    LET q == RunLast(ops, p)
    IN  IF ops[p].type = "added"
        THEN DiffChange("added", undefined, undefined,
                        NewLineOf(ops, p), NewLineOf(ops, q),
                        Join(LinesOf(ops, p, q)))
        ELSE IF q < Len(ops) /\ ops[q+1].type = "added"
        THEN LET f == RunLast(ops, q + 1)
             IN  DiffChange("modified", OldLineOf(ops, p), OldLineOf(ops, q),
                            NewLineOf(ops, q + 1), NewLineOf(ops, f),
                            Join(LinesOf(ops, q + 1, f)))
        ELSE DiffChange("removed", OldLineOf(ops, p), OldLineOf(ops, q),
                        undefined, undefined, Join(LinesOf(ops, p, q)))

RECURSIVE AscendingSeq(_)
AscendingSeq(S) ==
    IF S = {} THEN <<>>
    ELSE LET lo == CHOOSE x \in S : \A y \in S : x <= y
         IN  <<lo>> \o AscendingSeq(S \ {lo})

ExpectedChanges(ops) ==
    LET starts == AscendingSeq(ChangeStarts(ops))
    IN  [k \in 1..Len(starts) |-> ExpectedChangeAt(ops, starts[k])]

MergeExpected ==
    <<DiffChange("modified", 2, 3, 2, 3, Join(<<<<"b","2">>, <<"c","2">>>>))>>

\* C7: computeDiff turns each maximal removed run that is directly followed
\* by a maximal added run into exactly one modified change with the old range
\* of the removed run, the new range and the joined lines of the added run; a
\* removed run alone stays one removed change, an added run alone one added
\* change, unchanged lines give nothing; a,b,c,d against a,b2,c2,d gives
\* exactly one modified change 2-3 / 2-3 with content b2,c2.
C7_MergeRuns ==
    dphase = "diffed" =>
        /\ changes = ExpectedChanges(DiffOps(oldText, newText))
        /\ (oldText = MergeOld /\ newText = MergeNew) => changes = MergeExpected

\* C7 witness: the scenario of the test has been diffed into one modified
\* change, and it is the change of a two-line removed run
C7_Witness ==
    /\ dphase = "diffed"
    /\ oldText = MergeOld /\ newText = MergeNew
    /\ Len(changes) = 1 /\ changes[1].type = "modified"
    /\ changes[1].oldEnd = changes[1].oldStart + 1

\* the result the claim of C8 describes: hunks in ascending oldStart order,
\* hunks without oldStart last; lines strictly before a hunk copied, the
\* old range dropped, the content lines of a modified or added hunk spliced
RefStep(lines, st, ch) ==
    IF ch.type = "added"
    THEN [cursor |-> st.cursor, result |-> st.result \o Split(ch.content)]
    ELSE LET before == SubSeq(lines, st.cursor, ch.oldStart - 1)
         IN  [cursor |-> ch.oldEnd + 1,
              result |-> st.result \o before
                         \o (IF ch.type = "modified" THEN Split(ch.content) ELSE <<>>)]

RECURSIVE RefLoop(_, _, _)
RefLoop(lines, st, sorted) ==
    IF sorted = <<>> THEN st
    ELSE RefLoop(lines, RefStep(lines, st, Head(sorted)), Tail(sorted))

RefApply(originalContent, chs) ==
    LET lines == Split(originalContent)
        st == RefLoop(lines, [cursor |-> 1, result |-> <<>>], SortByOldStart(chs))
    IN  Join(st.result \o SubSeq(lines, st.cursor, Len(lines)))

\* C8 (as claimed): for well-formed hunks with non-overlapping old ranges
\* applyDiff copies the lines before each hunk, drops removed ranges,
\* replaces modified ranges by the content lines, inserts added content at
\* the cursor and appends the rest; also when a hunk starts at line 1.
C8_ApplyHunks ==
    dphase = "patched" => result = RefApply(oldText, changes)

----------------------------------------------------------------------------
(* Claims about the snapshot store *)

\* the records the claim of C9 expects for the stored map S and the current
\* map C, by presence of the name in each map
ExpectedSymbolRecords(S, C) ==
    {[symbol |-> n, type |-> "added", code |-> MapGet(C, n), lineNumber |-> 0] :
        n \in {x \in SymbolNames : MapHas(C, x) /\ ~MapHas(S, x)}}
    \cup
    {[symbol |-> n, type |-> "removed", code |-> <<>>, lineNumber |-> 0,
      oldCode |-> MapGet(S, n)] :
        n \in {x \in SymbolNames : MapHas(S, x) /\ ~MapHas(C, x)}}
    \cup
    {[symbol |-> n, type |-> "modified", code |-> MapGet(C, n), lineNumber |-> 0,
      oldCode |-> MapGet(S, n)] :
        n \in {x \in SymbolNames :
                 MapHas(S, x) /\ MapHas(C, x) /\ MapGet(S, x) # MapGet(C, x)}}

\* C9 (as claimed): generateSymbolDiff returns exactly one record per changed
\* name and none for an unchanged one: only in C gives added with code C[name],
\* only in S gives removed with empty code and oldCode S[name], in both with
\* different text gives modified; for every text, the empty string included.
C9_SymbolDiff ==
    (snapCall.op = "generateSymbolDiff" /\ ~snapCall.threw) =>
        LET S == symbolSnapshots[snapCall.filePath].value
            C == snapCall.current
            R == snapCall.returned
        IN  /\ {R[k] : k \in 1..Len(R)} = ExpectedSymbolRecords(S, C)
            /\ Len(R) = Cardinality(ExpectedSymbolRecords(S, C))

----------------------------------------------------------------------------
(* Claims about the optimizer and the truncations *)

\* every arrangement of the elements of a sequence
RECURSIVE Arrangements(_)
Arrangements(arr) ==
    IF arr = <<>> THEN {<<>>}
    ELSE UNION {{<<arr[k]>> \o p :
                    p \in Arrangements(SubSeq(arr, 1, k-1) \o SubSeq(arr, k+1, Len(arr)))} :
                k \in 1..Len(arr)}

OtherFlag(flag) == IF flag = "true" THEN "false" ELSE "true"

\* C5: key determinism. The key of a request is the key of every permutation
\* of its target-symbol list, and the key with includeImports = true differs
\* from the key with includeImports = false for the same path and symbols.
C5_KeyDeterminism ==
    epc # "start" =>
        /\ \A p \in Arrangements(options.targetSymbols.list) :
              generateCacheKey(options.filePath,
                               [options.targetSymbols EXCEPT !.list = p],
                               options.includeImports) = cacheKey
        /\ options.includeImports # "undefined" =>
              generateCacheKey(options.filePath, options.targetSymbols,
                               OtherFlag(options.includeImports)) # cacheKey

\* C5 witness: a request with two different target symbols and imports
\* included has been keyed; its list is sorted and the key is f:a,b:with-imports
C5_Witness ==
    /\ epc = "probed"
    /\ options.targetSymbols = Given(<<<<"a">>, <<"b">>>>)
    /\ options.includeImports = "true"
    /\ cacheKey = <<"f", ":", "a", ",", "b", ":">> \o WithImports

\* C6: truncation idempotence. Truncating an already truncated context again
\* with the same budget gives the same extractedCode and tokenCount, for
\* truncateContext and for truncateToTokenLimit.
C6_TruncateIdempotent ==
    tphase = "twice" =>
        /\ ttwice.extractedCode = tonce.extractedCode
        /\ ttwice.tokenCount = tonce.tokenCount

\* C6 witness: the first truncation cut lines off, and it was applied again
C6_Witness ==
    /\ tphase = "twice"
    /\ tkind = "cache"
    /\ Len(tonce.extractedCode) < Len(tctx.extractedCode)
    /\ tonce.extractedCode # <<>>

\* C10 (as claimed): the context extractCodeContext returns has
\* tokenCount <= maxTokens (1000 when maxTokens is not given), also when the
\* imports alone exceed the budget.
C10_TokenBudget ==
    epc = "done" =>
        returned.tokenCount <=
            (IF options.maxTokens = undefined THEN 1000 ELSE options.maxTokens)

----------------------------------------------------------------------------
(* The cache manager *)

\* C2: after any run of set, get, getByFilePath, invalidateFile, clear and
\* optimizeCache calls, the totalSize that getStats() reports is at most
\* maxCacheSize.
C2_CapacityInvariant == stats.totalSize <= maxCacheSize

\* a set has just been answered with entries evicted to make room, and the
\* cache holds more than half of its capacity
C2_Witness ==
    /\ cacheCall.op = "set"
    /\ stats.evictionCount > 0
    /\ stats.totalSize * 2 > maxCacheSize

\* C3: a context whose relevanceScore is below relevanceThreshold is never
\* returned by get: whatever calls came before, a get of any key answers
\* null or a context at or above the threshold, and right after
\* set(key, context) with such a context a get of that key does not answer it.
C3_AdmissionThreshold ==
    /\ \A key \in Keys :
          LET r == get(Manager, key, now).returned
          IN  r.present => r.value.relevanceScore >= relevanceThreshold
    /\ cacheCall.op = "get" /\ cacheCall.returned.present
          => cacheCall.returned.value.relevanceScore >= relevanceThreshold
    /\ cacheCall.op = "set" /\ cacheCall.context.relevanceScore < relevanceThreshold
          => LET r == get(Manager, cacheCall.key, now).returned
             IN  ~r.present \/ r.value # cacheCall.context

\* set(key, context) with a context below the threshold has returned while
\* other entries are cached, and a get of that key answers null
C3_Witness ==
    /\ cacheCall.op = "set"
    /\ cacheCall.context.relevanceScore < relevanceThreshold
    /\ cache # <<>>
    /\ ~get(Manager, cacheCall.key, now).returned.present

\* C4: the evictionCount that getStats() reports never decreases from one
\* call to the next.
C4_EvictionMonotone == [][stats'.evictionCount >= stats.evictionCount]_vars

\* entries have been evicted and the cache has then been cleared
C4_Witness ==
    /\ cacheCall.op = "clear"
    /\ stats.evictionCount >= 2
    /\ stats.totalEntries = 0

----------------------------------------------------------------------------
(* extractCodeContext and its collaborators *)

\* the collaborator calls of the request whose name is in names, in order
CallsNamed(names) == SelectSeq(calls, LAMBDA c : c.call \in names)

\* the cache answered the probe with a context no older than 5 minutes
FreshHit == cached.present /\ now - cached.value.timestamp <= 300000

\* C11: the first collaborator call of a request is get under the request's
\* key; a request answered from a non-stale cached context makes no other
\* call (no parser, no import analyzer, no set); a request whose probe
\* missed has, by the time it returns, called the parser and then set, once,
\* under the probed key and with the context it built.
C11_CacheFirst ==
    /\ epc # "start" =>
          /\ calls # <<>>
          /\ calls[1] = [call |-> "get", key |-> cacheKey]
          /\ Len(CallsNamed({"get"})) = 1
    /\ epc = "done" /\ FreshHit => Len(calls) = 1
    /\ epc = "done" /\ ~cached.present =>
          /\ CallsNamed({"parseFile", "extractContext", "set"})
                = <<[call |-> "parseFile", filePath |-> options.filePath],
                    [call |-> "extractContext", targetSymbols |-> options.targetSymbols],
                    [call |-> "set", key |-> cacheKey, context |-> context]>>
          /\ calls[Len(calls)].call = "set"

\* a request whose probe missed has returned after the parser, the import
\* analyzer and set were called
C11_Witness ==
    /\ epc = "done"
    /\ ~cached.present
    /\ Len(calls) = 5
    /\ calls[5].call = "set"


\* C12: every context that set admitted into the cache has
\* tokenCount <= maxTokensPerEntry.
C12_TokenCeiling ==
    \A k \in 1..Len(cache) : cache[k].value.tokenCount <= maxTokensPerEntry

----------------------------------------------------------------------------
(* The snapshot store: missing snapshots *)

\* C13: generateFileDiff(key) and generateSymbolDiff(key, map) throw a
\* "no snapshot" error whenever the key has no stored snapshot of that kind,
\* and the failed call leaves both snapshot maps unchanged.
C13_NotFound ==
    [][/\ (snapCall'.op = "generateFileDiff"
             /\ ~fileSnapshots[snapCall'.filePath].present)
          => /\ snapCall'.threw
             /\ snapCall'.error = "No snapshot found"
       /\ (snapCall'.op = "generateSymbolDiff"
             /\ ~symbolSnapshots[snapCall'.filePath].present)
          => /\ snapCall'.threw
             /\ snapCall'.error = "No symbol snapshot found"
       /\ (snapCall'.op \in {"generateFileDiff", "generateSymbolDiff"}
             /\ snapCall'.threw)
          => UNCHANGED <<fileSnapshots, symbolSnapshots>>]_vars

\* generateFileDiff has thrown for a file without a snapshot while the other
\* file has both kinds of snapshot
C13_Witness ==
    /\ snapCall.op = "generateFileDiff"
    /\ snapCall.threw
    /\ snapCall.error = "No snapshot found"
    /\ ~fileSnapshots[snapCall.filePath].present
    /\ \E f \in Files : fileSnapshots[f].present /\ symbolSnapshots[f].present

----------------------------------------------------------------------------
(* The cache manager: invalidateFile and get *)

\* the keys whose entry in store c is of file filePath
KeysWithPath(c, filePath) ==
    {c[k].key : k \in {i \in 1..Len(c) : c[i].value.filePath = filePath}}

\* C14: invalidateFile(path) removes every cache entry whose context.filePath
\* equals path together with its access count and its last-accessed time, and
\* leaves every entry of any other file path, and its bookkeeping, unchanged.
C14_InvalidateFile ==
    [][(cacheCall'.op = "invalidateFile" /\ nops' = nops + 1) =>
          LET path == cacheCall'.filePath
          IN  /\ KeysWithPath(cache', path) = {}
              /\ \A key \in KeysWithPath(cache, path) :
                    /\ accessCounts'[key] = undefined
                    /\ lastAccessed'[key] = undefined
              /\ cache' = SelectSeq(cache, LAMBDA e : e.value.filePath # path)
              /\ \A key \in Keys \ KeysWithPath(cache, path) :
                    /\ accessCounts'[key] = accessCounts[key]
                    /\ lastAccessed'[key] = lastAccessed[key]]_vars


\* the stored entries as a set of [key, value] pairs
Stored(c) == {[key |-> c[k].key, value |-> c[k].value] : k \in 1..Len(c)}

\* the entry of key in store c has outlived cacheExpirationMs at time t
Expired(c, key, t) == LruHas(c, key) /\ LruIsStale(c[LruIndex(c, key)], t)

\* a step that is the call get(key)
GetStep(key) == cacheCall'.op = "get" /\ cacheCall'.key = key /\ nops' = nops + 1

\* the hit of C15: count plus one, lastAccessed refreshed, the stored context
\* returned, and the store holds the same contexts under the same keys
GetHit(key) ==
    /\ accessCounts'[key] = OrZero(accessCounts[key]) + 1
    /\ lastAccessed'[key] = now
    /\ cacheCall'.returned = Present(cache[LruIndex(cache, key)].value)
    /\ Stored(cache') = Stored(cache)
    /\ \A other \in Keys \ {key} :
          /\ accessCounts'[other] = accessCounts[other]
          /\ lastAccessed'[other] = lastAccessed[other]

\* C15 (as claimed): get(key) on a present entry increases that entry's
\* accessCount by exactly one, refreshes its lastAccessed and returns the
\* stored context unchanged; get(key) on an absent key returns null and
\* changes neither the entry store nor any access-count or last-accessed
\* record.
C15_GetAsClaimed ==
    [][\A key \in Keys : GetStep(key) =>
          IF LruHas(cache, key) THEN GetHit(key)
          ELSE /\ cacheCall'.returned = Absent
               /\ UNCHANGED <<cache, accessCounts, lastAccessed>>]_vars

\* C15 (amended): the claim holds for an entry that has not outlived
\* cacheExpirationMs and for a key without an entry; get(key) on an entry
\* older than cacheExpirationMs returns null, removes that entry from the
\* store and changes no other entry and no access-count or last-accessed
\* record.
C15_Get ==
    [][\A key \in Keys : GetStep(key) =>
          IF ~LruHas(cache, key)
          THEN /\ cacheCall'.returned = Absent
               /\ UNCHANGED <<cache, accessCounts, lastAccessed>>
          ELSE IF ~Expired(cache, key, now) THEN GetHit(key)
          ELSE /\ cacheCall'.returned = Absent
               /\ cache' = LruWithout(cache, key)
               /\ UNCHANGED <<accessCounts, lastAccessed>>]_vars

\* get has answered null for an entry older than cacheExpirationMs: the
\* entry is gone, its access count is still recorded
C15_Witness ==
    /\ cacheCall.op = "get"
    /\ ~cacheCall.returned.present
    /\ ~LruHas(cache, cacheCall.key)
    /\ accessCounts[cacheCall.key] = 1
    /\ stats.evictionCount = 1
    /\ stats.totalEntries = 1

----------------------------------------------------------------------------
(* optimizeImports *)

\* seq without the elements that occur in listed, the others in their order
RECURSIVE DropListed(_, _)
DropListed(seq, listed) ==
    IF seq = <<>> THEN <<>>
    ELSE LET front == DropListed(SubSeq(seq, 1, Len(seq) - 1), listed)
             last == seq[Len(seq)]
         IN  IF last \in {listed[k] : k \in 1..Len(listed)} THEN front
             ELSE Append(front, last)

\* C16: optimizeImports returns optimizedImports exactly as getMinimalImports
\* returned them, and removedImports equal to the original imports that are
\* not among the optimized imports, in their original order.
C16_OptimizeImports ==
    ipc = "done" =>
        /\ importsReturned.optimizedImports = minimalImports
        /\ importsReturned.removedImports = DropListed(originalImports, minimalImports)

\* the request of the test: two original imports, the first one kept
C16_Witness ==
    /\ ipc = "done"
    /\ originalImports = <<<<"a">>, <<"b">>>>
    /\ minimalImports = <<<<"a">>>>
    /\ importsReturned.removedImports = <<<<"b">>>>

----------------------------------------------------------------------------
(* The cache key and the staleness window *)

\* C17: a request with no target symbols (undefined) and a request with an
\* empty target-symbol list, for the same file path and import flag, get the
\* same key, the one built with the literal token "all".
C17_EmptyListKey ==
    (epc # "start" /\ supplied.list = <<>>) =>
        /\ cacheKey = generateCacheKey(options.filePath, NotGiven,
                                       options.includeImports)
        /\ cacheKey = options.filePath \o <<":">> \o AllToken \o <<":">>
                        \o (IF options.includeImports = "true" THEN WithImports
                            ELSE NoImports)

\* C18: generateCacheKey leaves its arguments unchanged: after the key is
\* computed the caller's targetSymbols list is in the order the caller wrote
\* it, and the list passed to the parser is the list the caller supplied.
C18_KeyNoSideEffect ==
    /\ epc # "start" => options.targetSymbols = supplied
    /\ \A k \in 1..Len(calls) :
          calls[k].call = "extractContext" => calls[k].targetSymbols = supplied

\* C19: a cached context whose timestamp is more than 5 minutes before now
\* is not returned: the parser is invoked, a context with timestamp = now is
\* built, passed to set under the probed key and returned; a cached context
\* at most 5 minutes old is returned without any recomputation.
C19_StalenessBypass ==
    /\ (epc = "done" /\ cached.present /\ now - cached.value.timestamp > 300000) =>
          /\ CallsNamed({"parseFile", "extractContext"}) # <<>>
          /\ context.timestamp = now
          /\ calls[Len(calls)] = [call |-> "set", key |-> cacheKey, context |-> context]
          /\ returned.timestamp = now
          /\ returned.imports = context.imports
    /\ (epc = "done" /\ cached.present /\ now - cached.value.timestamp <= 300000) =>
          /\ Len(calls) = 1
          /\ returned.timestamp = cached.value.timestamp
          /\ returned.imports = cached.value.imports
          /\ returned.filePath = cached.value.filePath

\* a request has returned a fresh context although the cache held one, one
\* millisecond older than 5 minutes
C19_Witness ==
    /\ epc = "done"
    /\ cached.present
    /\ now - cached.value.timestamp = 300001
    /\ returned.timestamp = now
    /\ calls[Len(calls)].call = "set"

----------------------------------------------------------------------------
(* The cache manager: the order of evictions *)

\* the context set stores for the context it is given
SetContext(ctx) ==
    IF ctx.tokenCount > maxTokensPerEntry THEN truncateContext(ctx) ELSE ctx

KeysOf(c) == {c[k].key : k \in 1..Len(c)}

\* the score getEntriesByRelevance gives the entry of key, before the call
RankOf(key) == EntryScore(cache[LruIndex(cache, key)], accessCounts, lastAccessed, now)

\* the size of the entries of the keys in S, before the call
SizeOf(S) == SumSizes(SelectSeq(cache, LAMBDA e : e.key \in S))

\* C20: when set admits an entry of size S and maxCacheSize - totalSize >= S,
\* no existing entry is evicted; otherwise entries are evicted in ascending
\* rank order, so that no entry is evicted while a lower-ranked entry stays,
\* and eviction stops as soon as the freed size reaches
\* S - (maxCacheSize - totalSize) + 0.1 * maxCacheSize.
C20_EvictionOrder ==
    [][(/\ cacheCall'.op = "set" /\ nops' = nops + 1
        /\ SetContext(cacheCall'.context).relevanceScore >= relevanceThreshold
        /\ LruHas(cache', cacheCall'.key)) =>
          LET key == cacheCall'.key
              S == calculateEntrySize(SetContext(cacheCall'.context))
              available == maxCacheSize - stats.totalSize
              target == S - available + maxCacheSize \div 10
              evicted == (KeysOf(cache) \ {key}) \ KeysOf(cache')
              kept == (KeysOf(cache) \ {key}) \cap KeysOf(cache')
          IN  IF available >= S THEN evicted = {}
              ELSE /\ \A e \in evicted, k \in kept : RankOf(k) >= RankOf(e)
                   /\ (evicted # {} /\ ~LruHas(cache, key)) =>
                         \E last \in evicted :
                            /\ \A e \in evicted : RankOf(e) <= RankOf(last)
                            /\ SizeOf(evicted \ {last}) < target]_vars

----------------------------------------------------------------------------
(* The cache manager: the eviction counter *)

\* a step that is an admitting set: the call passed the relevance filter
AdmittingSet ==
    /\ cacheCall'.op = "set" /\ nops' = nops + 1
    /\ SetContext(cacheCall'.context).relevanceScore >= relevanceThreshold

\* the number of entries ensureCapacity/freeSpace removes for the set of ctx
FreedFor(ctx) ==
    Len(cache) - Len(ensureCapacity(Manager, calculateEntrySize(SetContext(ctx)), now).cache)

\* the number of entries that were stored before the set of key and are gone
\* after it, the entry of key counted only when key itself is gone
GoneBy(key) == Cardinality(KeysOf(cache) \ (KeysOf(cache') \cup {key}))

\* C21 (as claimed): a set that evicts k entries raises evictionCount by
\* exactly k, and a set that evicts nothing, also one that overwrites an
\* existing key while room is available, leaves evictionCount unchanged.
C21_EvictionCount ==
    [][AdmittingSet =>
          LET k == Max(FreedFor(cacheCall'.context), GoneBy(cacheCall'.key))
          IN  stats'.evictionCount = stats.evictionCount + k]_vars

----------------------------------------------------------------------------
(* The cache manager: optimizeCache *)

\* a step that is a call of optimizeCache
OptimizeStep == cacheCall'.op = "optimizeCache" /\ nops' = nops + 1

\* no stored entry is past its ttl and none was last accessed longer ago than
\* cacheExpirationMs: the policy step of optimizeCache has nothing to remove
AllRecent ==
    \A k \in 1..Len(cache) :
        /\ ~LruIsStale(cache[k], now)
        /\ ~shouldEvictEntry(Manager, cache[k].key, now)

\* the keys of the count lowest-ranked entries before the call
LowestRanked(count) ==
    LET entries == getEntriesByRelevance(cache, accessCounts, lastAccessed, now)
    IN  {entries[k].key : k \in (Len(entries) - count + 1)..Len(entries)}

\* C22 (as claimed): the utilization step of optimizeCache.  With n entries
\* present, none of them for the policy step to remove, the call removes
\* exactly the floor(0.2 * n) lowest-ranked entries when totalSize /
\* maxCacheSize > 0.8 (none when n < 5) and nothing when it is at most 0.8.
C22_UtilizationStep ==
    [][(OptimizeStep /\ AllRecent) =>
          LET n == Len(cache)
              removed == KeysOf(cache) \ KeysOf(cache')
          IN  IF stats.totalSize * 10 > maxCacheSize * 8
              THEN removed = LowestRanked(n \div 5)
              ELSE removed = {}]_vars

----------------------------------------------------------------------------
(* The cache manager: set calls in flight *)

\* C23 (as claimed): admission is atomic with its capacity check.  While a
\* set is between its ensureCapacity check and its write to the store, no
\* other cache call begins or runs, and no two sets in flight took their
\* decision on room from the same totalSize value.
C23_AtomicAdmission ==
    [][/\ pending # <<>> => nops' = nops
       /\ \A i, j \in 1..Len(pending') :
             i < j => pending'[i].seen # pending'[j].seen]_vars

----------------------------------------------------------------------------
(* The diff engine: the shape of the changes *)

\* a range start..end of 1-based inclusive line numbers within 1..count
RangeWithin(start, end, count) == 1 <= start /\ start <= end /\ end <= count

NoRange(start, end) == start = undefined /\ end = undefined

\* a DiffChange is well-formed for texts of oldCount and newCount lines
WellFormedChange(ch, oldCount, newCount) ==
    /\ ch.type \in {"added", "removed", "modified"}
    /\ ch.type = "added" =>
          /\ NoRange(ch.oldStart, ch.oldEnd)
          /\ RangeWithin(ch.newStart, ch.newEnd, newCount)
    /\ ch.type = "removed" =>
          /\ RangeWithin(ch.oldStart, ch.oldEnd, oldCount)
          /\ NoRange(ch.newStart, ch.newEnd)
    /\ ch.type = "modified" =>
          /\ RangeWithin(ch.oldStart, ch.oldEnd, oldCount)
          /\ RangeWithin(ch.newStart, ch.newEnd, newCount)

\* C24: every change computeDiff returns is well-formed: an added change has
\* only a new range, a removed change only an old range, a modified change
\* both; every range is 1-based and inclusive with start <= end, old ranges
\* within the lines of the old text and new ranges within those of the new.
C24_ChangeShape ==
    dphase # "input" =>
        \A k \in 1..Len(changes) :
            WellFormedChange(changes[k], Len(Split(oldText)), Len(Split(newText)))

\* computeDiff has returned a modified change over more than one old line
\* together with a change of another type, and a change that ends on the
\* last line of the new text
C24_Witness ==
    /\ dphase = "diffed"
    /\ \E m, k \in 1..Len(changes) :
          /\ changes[m].type = "modified"
          /\ changes[m].oldEnd > changes[m].oldStart
          /\ changes[k].type \in {"added", "removed"}
    /\ \E k \in 1..Len(changes) :
          changes[k].type # "removed" /\ changes[k].newEnd = Len(Split(newText))

----------------------------------------------------------------------------
(* Truncation: the token count of the truncated context *)

\* C25 (as claimed): whenever truncateContext or truncateToTokenLimit changes
\* a context's extractedCode, the tokenCount of the resulting context is
\* ceil(characterLength / 4) of the resulting text.
C25_TokenCount ==
    /\ (tphase # "input" /\ tonce.extractedCode # tctx.extractedCode) =>
          tonce.tokenCount = CeilDiv(Len(tonce.extractedCode), 4)
    /\ (tphase = "twice" /\ ttwice.extractedCode # tonce.extractedCode) =>
          ttwice.tokenCount = CeilDiv(Len(ttwice.extractedCode), 4)

----------------------------------------------------------------------------
(* The optimizer: analyzeCodeDiff requests in flight *)

\* C26 (as claimed): the changes analyzeCodeDiff returns are the symbol diff
\* of the request's own oldContent against its own newContent, also when two
\* requests for the same filePath interleave at their awaits.
C26_RequestIsolation ==
    \A r \in DOMAIN requests :
        requests[r].pc = "done" =>
            requests[r].changes =
                ChangesOf(SymbolDiffOf(extractSymbolsFromContent(requests[r].oldContent),
                                       extractSymbolsFromContent(requests[r].newContent)))

----------------------------------------------------------------------------
(* The cache manager: the access tables *)

\* the keys a Map<string, number> holds
TableKeys(table) == {k \in Keys : table[k] # undefined}

\* C27 (as claimed): after every completed call the keys of accessCounts and
\* the keys of lastAccessed are the keys of the entry store, whichever way an
\* entry left the store.
C27_Bookkeeping ==
    /\ TableKeys(accessCounts) = KeysOf(cache)
    /\ TableKeys(lastAccessed) = KeysOf(cache)

----------------------------------------------------------------------------
(* The snapshot store: how long a file snapshot lasts *)

\* C28 (as claimed): from createSnapshotFromContent(key, text) until the
\* snapshot is cleared, for every text, the empty one included,
\* generateFileDiff(key) does not raise the "no snapshot" error.
C28_SnapshotLasts ==
    [][(/\ snapCall'.op = "generateFileDiff"
        /\ fileSnapshots[snapCall'.filePath].present)
          => snapCall'.error # "No snapshot found"]_vars


\* C29 (as claimed): optimizeCache reports what it did: removedEntries is the
\* number of entries the call removed from the store, and spaceSaved is the
\* sum of the sizes of the removed entries.
C29_OptimizeReport ==
    [][OptimizeStep =>
          /\ cacheCall'.returned.removedEntries = Len(cache) - Len(cache')
          /\ cacheCall'.returned.spaceSaved =
                CalculatedSize(cache) - CalculatedSize(cache')]_vars

----------------------------------------------------------------------------
(* The cache manager: a get right after a set *)

\* C30: read your write.  When set(key, c) has completed for a context c
\* with relevanceScore >= relevanceThreshold and an entry size of at most
\* maxCacheSize, a get(key) that follows at once returns c, or its truncated
\* form when c exceeded maxTokensPerEntry, whatever an earlier set stored
\* under key and whatever set evicted to make room.
C30_ReadYourWrite ==
    [][(/\ cacheCall.op = "set"
        /\ SetContext(cacheCall.context).relevanceScore >= relevanceThreshold
        /\ calculateEntrySize(SetContext(cacheCall.context)) <= maxCacheSize
        /\ lastAccessed[cacheCall.key] = now
        /\ cacheCall'.op = "get" /\ nops' = nops + 1
        /\ cacheCall'.key = cacheCall.key)
          => cacheCall'.returned = Present(SetContext(cacheCall.context))]_vars

\* a get has answered the entry of a key that was set once and read once
\* since it last entered the store, after evictions, and no other key is
\* left in the store: the set before the get evicted to make room
C30_Witness ==
    /\ cacheCall.op = "get"
    /\ cacheCall.returned.present
    /\ accessCounts[cacheCall.key] = 2
    /\ lastAccessed[cacheCall.key] = now
    /\ stats.evictionCount > 0
    /\ KeysOf(cache) = {cacheCall.key}
    /\ nops = 3

====
